---------------------------- MODULE Spec2Model ----------------------------
(***************************************************************************)
(* State-machine model of the d3d12_utils synchronization layer:           *)
(*   - CommandQueue       (src/d3d12_utils/src/command_queue.rs)           *)
(*   - UploadRingBuffer   (src/d3d12_utils/src/upload_ring_buffer.rs)      *)
(* together with the GPU timeline the two talk to: per queue a FIFO of     *)
(* submitted commands (ExecuteCommandLists / Signal / Wait) and the value  *)
(* of the queue's device fence.                                            *)
(*                                                                         *)
(* The CPU side is one thread.  An Upload returned by allocate borrows the *)
(* ring buffer mutably (Upload<'resource> holds &mut Submission and        *)
(* &mut CommandQueue), so until it is consumed by Upload::submit or        *)
(* dropped no other ring-buffer method can be called.                      *)
(***************************************************************************)
EXTENDS Integers, Sequences, FiniteSets, TLC

(***************************************************************************)
(* Program constants                                                       *)
(***************************************************************************)
MAX_NUMBER_SUBMISSIONS == 16

\* D3D12_TEXTURE_DATA_PLACEMENT_ALIGNMENT, the alignment passed to align_data
D3D12_TEXTURE_DATA_PLACEMENT_ALIGNMENT == 512

\* D3D12_COMMAND_LIST_TYPE values handed to CommandQueue::new
D3D12_COMMAND_LIST_TYPE_DIRECT == 0
D3D12_COMMAND_LIST_TYPE_COPY == 3

(***************************************************************************)
(* Bounds of the model                                                     *)
(***************************************************************************)
\* CommandQueue::new shifts the queue kind left by 56 bits.  TLC's integers
\* are 32 bits wide, so the model shifts by FenceShift bits instead; every
\* queue issues far fewer than 2^FenceShift values within the bounds below.
\* A fence value is a u64: the 64 - 56 = KindBits bits left above the shift
\* are kept, so the model's word has WordBits = FenceShift + KindBits bits.
FenceShift == 8

\* "ring" workload: a small buffer, mixed sizes, uploads may be dropped
RingUnits == 5
MaxAllocsRing == 5
\* "pool" workload: room for more than MAX_NUMBER_SUBMISSIONS uploads
PoolUnits == 20
MaxAllocsPool == 18
\* "xq" workload: uploads a graphics queue depends on
XqUnits == 3
MaxAllocsXq == 1
MaxQueueCalls == 3
\* descriptor heaps: the source sizes them 500_000, 1000 and 1000
MaxResourceDescriptors == 4
MaxDsvDescriptors == 1
MaxRtvDescriptors == 1
MaxDescriptorCalls == 6
\* a placed-resource heap of HeapBytes bytes, buffers of up to MaxWidth
\* bytes, at most MaxViews SubResources alive at a time
HeapBytes == 10
MaxWidth == 3
MaxViews == 2
MaxHeapCalls == 3
\* calls of Renderer::render
MaxFrames == 6

\* bits of a u64 above the shift of CommandQueue::new
KindBits == 8
WordBits == FenceShift + KindBits
Word == 2 ^ WordBits

Slots == 0 .. (MAX_NUMBER_SUBMISSIONS - 1)
\* the ring buffer's upload_queue, the caller's graphics queue, and the
\* upload_queue of a second UploadRingBuffer
QueueIds == {"upload", "graphics", "upload2"}
NoUpload == -1

VARIABLES
    \* UploadRingBuffer
    buffer_size, buffer_head, buffer_tail,
    submissions, submissions_start, submissions_used,
    closes,          \* Close calls on the command_list of the slot claimed last,
                     \* since allocate reset it
    upload,          \* slot of the live Upload, NoUpload when none is alive
    \* CommandQueue, per queue: [last_fence_value, next_fence_value]
    queues,
    \* the device
    fence,           \* per queue: value of its ID3D12Fence
    gpu,             \* per queue: commands submitted and not yet started
    running,         \* per queue: the command list being executed, or Idle
    \* the calling thread
    cpu,             \* Ready, or the wait it is blocked in
    event,           \* the last step taken and what it returned
    \* the caller's workload
    harness, allocs_left, qcalls_left,
    \* history
    phase,           \* per slot: "Free", "Claimed", "Submitted"
    alloc_order,     \* unretired slots, oldest allocation first
    dep_need,        \* highest transfer fence value a dependent submit named
    all_submitted,   \* no Upload was dropped unsubmitted so far
    retry,           \* the allocate that failed last, and whether the ring was drained since
    \* DescriptorManager
    descriptor_heaps,  \* per kind: the DescriptorHeap
    free_lists,        \* per kind: the Vec of released indices, last pushed last
    \* the caller of the DescriptorManager
    held,            \* per kind and index: handles returned by allocate, not released
    stale,           \* per kind: indices of released handles the caller still has copies of
    d_event,         \* the last descriptor call and what it returned
    dcalls_left,
    \* history of the DescriptorManager
    issued,          \* per kind: the addresses allocate_handle returned, in order
    high_water,      \* per kind: most handles ever live at the same time
    double_freed,    \* a released handle was passed to free again
    \* Heap
    mem_heap,        \* the Heap: [size, curr_offset, num_objects]
    \* the Resources and SubResources the caller owns
    resources,       \* sequence of [device_resource, size, mapped_data, alive]
    views,           \* sequence of SubResources [resource, size, offset]
    command_list,    \* the CopyBufferRegion commands recorded so far
    h_event,         \* the last heap or resource call and what it did
    hcalls_left,
    \* the device
    placed,          \* ranges CreatePlacedResource was given, in order
    dev_log,         \* per ID3D12Resource: the calls made on it, in order
    \* the caller that only issues fence values
    fence_calls,     \* per queue: its execute_command_list calls so far
    \* Renderer (src/renderer/src/renderer.rs)
    frame_index,     \* RendererResources::frame_index
    fence_values,    \* RendererResources::fence_values
    frame_fence,     \* completed value of RendererResources::fence
    command_queue,   \* commands given to RendererResources::command_queue and
                     \* not yet finished by the device
    render_wait,     \* current_fence_value of the render call blocked in
                     \* WaitForSingleObject, NotWaiting when none is
    frames_left,     \* render calls the caller may still make
    signaled,        \* values given to command_queue.Signal, in order
    last_use,        \* per command allocator: the value signaled after the
                     \* last command list recorded with it, 0 when none
    r_event          \* the last Renderer step

ringVars == <<buffer_size, buffer_head, buffer_tail, submissions,
              submissions_start, submissions_used, closes>>
gpuVars == <<fence, gpu, running>>
histVars == <<phase, alloc_order, dep_need, all_submitted, retry>>
syncVars == <<buffer_size, buffer_head, buffer_tail, submissions, submissions_start,
              submissions_used, closes, upload, queues, fence, gpu, running, cpu, event,
              harness, allocs_left, qcalls_left, phase, alloc_order, dep_need,
              all_submitted, retry>>
descVars == <<descriptor_heaps, free_lists, held, stale, d_event, dcalls_left,
              issued, high_water, double_freed>>
heapVars == <<mem_heap, resources, views, command_list, h_event, hcalls_left,
              placed, dev_log>>
fenceVars == <<fence_calls>>
frameVars == <<frame_index, fence_values, frame_fence, command_queue, render_wait,
               frames_left, signaled, last_use, r_event>>
vars == <<syncVars, descVars, heapVars, fenceVars, frameVars>>

\* what a step of the ring buffer, the queues and the GPU leaves alone, what
\* a step of the DescriptorManager leaves alone, and what a step of the Heap
\* and its Resources leaves alone
outsideSync == <<descVars, heapVars, fenceVars, frameVars>>
outsideDesc == <<syncVars, heapVars, fenceVars, frameVars>>
outsideHeap == <<syncVars, descVars, fenceVars, frameVars>>
outsideFrames == <<syncVars, descVars, heapVars, fenceVars>>

(***************************************************************************)
(* helpers.rs                                                              *)
(***************************************************************************)
\* (location + (alignment - 1)) & !(alignment - 1), alignment a power of two
align_data(location, alignment) ==
    LET x == location + (alignment - 1) IN x - (x % alignment)

(***************************************************************************)
(* command_queue.rs                                                        *)
(***************************************************************************)
QueueKind(q) ==
    IF q = "graphics" THEN D3D12_COMMAND_LIST_TYPE_DIRECT ELSE D3D12_COMMAND_LIST_TYPE_COPY

\* a base computed in a word one bit narrower
FenceBaseNarrow(kind) == (kind * (2 ^ FenceShift)) % (2 ^ (WordBits - 1))

\* let last_fence_value = (command_type.0 as u64) << 56; the bits shifted
\* out of the word are lost
FenceBase(kind) == (kind * (2 ^ FenceShift)) % Word

\* CommandQueue::new
NewQueue(kind) ==
    [last_fence_value |-> FenceBase(kind), next_fence_value |-> FenceBase(kind) + 1]

\* poll_fence_value: last_fence_value = max(fence.GetCompletedValue(), last_fence_value)
poll_fence_value(last, device) == IF device > last THEN device ELSE last

\* a cache that takes the asked value for complete without polling the fence
FenceCacheAfterAssumed(last, device, v) == IF v > last THEN v ELSE last

\* a cache refreshed from the fence on every call
FenceCacheAfterPolled(last, device, v) == poll_fence_value(last, device)

\* the number of fence.GetCompletedValue calls is_fence_complete(v) makes
fence_queries(last, v) == IF v > last THEN 1 ELSE 0

\* the cached value after is_fence_complete(v): polls only if v > last_fence_value
FenceCacheAfter(last, device, v) ==
    IF v > last THEN poll_fence_value(last, device) ELSE last

is_fence_complete_unchecked(last, device, v) == TRUE

\* is_fence_complete(v): fence_value <= self.last_fence_value, after the poll
is_fence_complete(last, device, v) == v <= FenceCacheAfter(last, device, v)


Max(a, b) == IF a > b THEN a ELSE b

\* commands a queue holds for the GPU
ExecCmd(list) == [op |-> "Exec", list |-> list, q |-> "none", value |-> 0, need |-> 0]
SignalCmd(v) == [op |-> "Signal", list |-> -1, q |-> "none", value |-> v, need |-> 0]
WaitCmd(q, v) == [op |-> "Wait", list |-> -1, q |-> q, value |-> v, need |-> 0]
Idle == [op |-> "Idle", list |-> -1, q |-> "none", value |-> 0, need |-> 0]

execute_command_list_no_advance(qrec, list) ==
    [queue |-> qrec,
     ret |-> qrec.next_fence_value,
     cmds |-> <<ExecCmd(list), SignalCmd(qrec.next_fence_value)>>]

\* execute_command_list: ExecuteCommandLists, Signal(fence, value_to_signal),
\* next_fence_value += 1, returns value_to_signal
execute_command_list(qrec, list) ==
    [queue |-> [qrec EXCEPT !.next_fence_value = (@ + 1) % Word],
     ret |-> qrec.next_fence_value,
     cmds |-> <<ExecCmd(list), SignalCmd(qrec.next_fence_value)>>]

\* insert_wait(v): self.queue.Wait(&self.fence, v)
insert_wait(self, v) == <<WaitCmd(self, v)>>

insert_wait_for_queue_fence_omitted(other, v) == << >>

\* insert_wait_for_queue_fence(queue, v): self.queue.Wait(&queue.fence, v)
insert_wait_for_queue_fence(other, v) == <<WaitCmd(other, v)>>

(***************************************************************************)
(* resource.rs                                                             *)
(***************************************************************************)
\* a null mapped_data pointer
NullPtr == 0

\* the address ID3D12Resource::Map returns for device resource id
MapAddress(id) == 100 * id

NoWrite == [lo |-> 0, len |-> 0]
NoCopy == [dst |-> 0, dst_offset |-> 0, src |-> 0, src_offset |-> 0, num_bytes |-> 0]
NoSubResource == [resource |-> 0, size |-> 0, offset |-> 0]

\* a copy_from that does not compare the data with the resource's size
Resource_copy_from_unchecked(res, data_size_bytes) ==
    IF res.mapped_data = NullPtr
    THEN [ok |-> FALSE, write |-> NoWrite]
    ELSE [ok |-> TRUE, write |-> [lo |-> res.mapped_data, len |-> data_size_bytes]]

\* Resource::copy_from(data): the bytes [lo, lo + len) are written
Resource_copy_from(res, data_size_bytes) ==
    IF res.mapped_data = NullPtr THEN [ok |-> FALSE, write |-> NoWrite]
    ELSE IF ~(data_size_bytes <= res.size) THEN [ok |-> FALSE, write |-> NoWrite]
    ELSE [ok |-> TRUE, write |-> [lo |-> res.mapped_data, len |-> data_size_bytes]]

\* a create_sub_resource that checks the offset alone
create_sub_resource_offset_only(res, r, size, offset) ==
    IF offset <= res.size
    THEN [ok |-> TRUE, sub |-> [resource |-> r, size |-> size, offset |-> offset]]
    ELSE [ok |-> FALSE, sub |-> NoSubResource]

\* Resource::create_sub_resource(size, offset) of the resource res, the r-th
\* the caller owns
create_sub_resource(res, r, size, offset) ==
    IF (offset + size) <= res.size
    THEN [ok |-> TRUE, sub |-> [resource |-> r, size |-> size, offset |-> offset]]
    ELSE [ok |-> FALSE, sub |-> NoSubResource]

\* SubResource::get_mapped_data: NullPtr stands for None
get_mapped_data(sub, parent) ==
    IF parent.mapped_data = NullPtr THEN NullPtr ELSE parent.mapped_data + sub.offset

\* SubResource::copy_to_offset_from(offset, data)
copy_to_offset_from(sub, parent, offset, data_size_bytes) ==
    IF ~(data_size_bytes <= sub.size) THEN [ok |-> FALSE, write |-> NoWrite]
    ELSE LET mapped_data == get_mapped_data(sub, parent) IN
         IF mapped_data = NullPtr THEN [ok |-> FALSE, write |-> NoWrite]
         ELSE [ok |-> TRUE,
               write |-> [lo |-> mapped_data + offset, len |-> data_size_bytes]]

\* SubResource::copy_from(data)
SubResource_copy_from(sub, parent, data_size_bytes) ==
    copy_to_offset_from(sub, parent, 0, data_size_bytes)

\* a copy_to_resource without the size check
copy_to_resource_unchecked(sub, parent, resource) ==
    [ok |-> TRUE,
     copy |-> [dst |-> resource.device_resource, dst_offset |-> 0,
               src |-> parent.device_resource, src_offset |-> sub.offset,
               num_bytes |-> sub.size]]

\* SubResource::copy_to_resource(command_list, resource): the
\* CopyBufferRegion it records
copy_to_resource(sub, parent, resource) ==
    IF ~(sub.size <= resource.size) THEN [ok |-> FALSE, copy |-> NoCopy]
    ELSE [ok |-> TRUE,
          copy |-> [dst |-> resource.device_resource, dst_offset |-> 0,
                    src |-> parent.device_resource, src_offset |-> sub.offset,
                    num_bytes |-> sub.size]]

\* SubResource::copy_to_sub_resource(command_list, sub_resource)
copy_to_sub_resource(sub, parent, sub_resource, dst_parent) ==
    IF ~(sub.size <= sub_resource.size) THEN [ok |-> FALSE, copy |-> NoCopy]
    ELSE [ok |-> TRUE,
          copy |-> [dst |-> dst_parent.device_resource,
                    dst_offset |-> sub_resource.offset,
                    src |-> parent.device_resource, src_offset |-> sub.offset,
                    num_bytes |-> sub.size]]

\* a drop that releases the ID3D12Resource without unmapping it
Resource_drop_mapped(res) == <<"Release">>

\* Drop for Resource, then the drop of its device_resource field: the calls
\* made on the ID3D12Resource
Resource_drop(res) ==
    IF res.mapped_data # NullPtr THEN <<"Unmap", "Release">> ELSE <<"Release">>

\* the device calls of a creation that can fail, and "ok" for none failing
CommittedOutcomes == {"ok", "CreateCommittedResource", "Map"}

\* Resource::create_committed(desc, mapped) that makes device resource id
create_committed(id, width, height, mapped, outcome) ==
    IF outcome = "CreateCommittedResource"
    THEN [ok |-> FALSE, made |-> FALSE, log |-> << >>, resource |-> NoSubResource]
    ELSE IF mapped /\ outcome = "Map"
    THEN [ok |-> FALSE, made |-> TRUE, log |-> <<"Create", "Release">>,
          resource |-> NoSubResource]
    ELSE [ok |-> TRUE, made |-> TRUE,
          log |-> IF mapped THEN <<"Create", "Map">> ELSE <<"Create">>,
          resource |-> [device_resource |-> id, size |-> width * height,
                        mapped_data |-> IF mapped THEN MapAddress(id) ELSE NullPtr,
                        alive |-> TRUE]]

(***************************************************************************)
(* upload_ring_buffer.rs                                                   *)
(***************************************************************************)
\* Submission::new / Submission::reset
FreeSubmission == [fence_value |-> 0, offset |-> 0, size |-> 0, padding |-> 0]

\* The ring buffer as one value: its fields, the upload queue's cached fence
\* value, the device fence the queue polls, and what the call reports.
Ring ==
    [buffer_size |-> buffer_size, buffer_head |-> buffer_head,
     buffer_tail |-> buffer_tail, submissions |-> submissions,
     submissions_start |-> submissions_start,
     submissions_used |-> submissions_used,
     last_fence_value |-> queues["upload"].last_fence_value,
     device |-> fence["upload"],
     retired |-> << >>, err |-> FALSE, ok |-> TRUE, slot |-> -1,
     reason |-> "none", cleaned |-> FALSE, sub |-> NoSubResource]

\* a retirement that leaves the slot's fields as they are
RetireWithoutReset(st, index) ==
    LET sub == st.submissions[index] IN
    [st EXCEPT
       !.buffer_tail = IF st.buffer_tail + sub.size + sub.padding > st.buffer_size
                       THEN 0
                       ELSE st.buffer_tail + sub.size + sub.padding,
       !.submissions_start = (st.submissions_start + 1) % MAX_NUMBER_SUBMISSIONS,
       !.submissions_used = st.submissions_used - 1,
       !.retired = Append(st.retired, index)]

\* body of the `if is_fence_complete` branch of clean_up_submissions
Retire(st, index) ==
    LET sub == st.submissions[index] IN
    [st EXCEPT
       !.buffer_tail = IF st.buffer_tail + sub.size + sub.padding > st.buffer_size
                       THEN 0
                       ELSE st.buffer_tail + sub.size + sub.padding,
       !.submissions_start = (st.submissions_start + 1) % MAX_NUMBER_SUBMISSIONS,
       !.submissions_used = st.submissions_used - 1,
       !.submissions[index] = FreeSubmission,
       !.retired = Append(st.retired, index)]

RECURSIVE CleanLoopSkipping(_, _, _, _)
CleanLoopSkipping(st, start_idx, num_submissions, i) ==
    IF i >= num_submissions THEN st
    ELSE LET index == (start_idx + i) % MAX_NUMBER_SUBMISSIONS
             fv == st.submissions[index].fence_value
             st1 == [st EXCEPT !.last_fence_value = FenceCacheAfter(@, st.device, fv)]
         IN IF is_fence_complete(st.last_fence_value, st.device, fv)
            THEN CleanLoopSkipping(Retire(st1, index), start_idx, num_submissions, i + 1)
            ELSE CleanLoopSkipping(st1, start_idx, num_submissions, i + 1)

\* the for loop of clean_up_submissions, from iteration i on
RECURSIVE CleanLoop(_, _, _, _)
CleanLoop(st, start_idx, num_submissions, i) ==
    IF i >= num_submissions THEN st
    ELSE LET index == (start_idx + i) % MAX_NUMBER_SUBMISSIONS
             fv == st.submissions[index].fence_value
             st1 == [st EXCEPT !.last_fence_value = FenceCacheAfter(@, st.device, fv)]
         IN IF is_fence_complete(st.last_fence_value, st.device, fv)
            THEN IF st1.buffer_tail = st1.submissions[index].offset
                 THEN CleanLoop(Retire(st1, index), start_idx, num_submissions, i + 1)
                 ELSE [st1 EXCEPT !.err = TRUE, !.ok = FALSE, !.reason = "tail"]
            ELSE st1

clean_up_submissions(st) ==
    CleanLoop([st EXCEPT !.cleaned = TRUE], st.submissions_start, st.submissions_used, 0)

SlotAvailableUnchecked(used) == TRUE

\* ensure!(self.submissions_used < MAX_NUMBER_SUBMISSIONS)
SlotAvailable(used) == used < MAX_NUMBER_SUBMISSIONS

\* ensure!((self.buffer_head + size < self.buffer_size) || size < self.buffer_tail)
SpaceAvailable(head, tail, size, cap) == (head + size < cap) \/ (size < tail)

\* let offset = if self.buffer_head + size > self.buffer_size { 0 } else { self.buffer_head }
ChooseOffset(head, size, cap) == IF head + size > cap THEN 0 ELSE head

RejectAfterClaim(st, why) ==
    [st EXCEPT !.ok = FALSE, !.reason = why,
               !.submissions_used = IF @ < MAX_NUMBER_SUBMISSIONS THEN @ + 1 ELSE @]

\* an ensure! of allocate that fails: Err is returned, nothing was written yet
Reject(st, why) == [st EXCEPT !.ok = FALSE, !.reason = why]

\* UploadRingBuffer::buffer, the mapped Resource of buffer_size bytes
Buffer(st) ==
    [device_resource |-> 0, size |-> st.buffer_size, mapped_data |-> MapAddress(0),
     alive |-> TRUE]

\* an allocate that records the aligned size as the slot's size
ClaimAlignedSize(st, raw_size, size) ==
    LET offset == ChooseOffset(st.buffer_head, size, st.buffer_size)
        submission_index ==
            (st.submissions_start + st.submissions_used) % MAX_NUMBER_SUBMISSIONS
        sub_resource == create_sub_resource(Buffer(st), 0, raw_size, offset)
    IN  [st EXCEPT
           !.buffer_head = offset + size,
           !.submissions_used = @ + 1,
           !.submissions[submission_index] =
               [@ EXCEPT !.offset = offset, !.padding = size - raw_size,
                         !.size = size],
           !.slot = submission_index,
           !.sub = sub_resource.sub]

\* allocate, from the claim of the slot on
Claim(st, raw_size, size) ==
    LET offset == ChooseOffset(st.buffer_head, size, st.buffer_size)
        submission_index ==
            (st.submissions_start + st.submissions_used) % MAX_NUMBER_SUBMISSIONS
        claimed ==
            [st EXCEPT
               !.buffer_head = offset + size,
               !.submissions_used = @ + 1,
               !.submissions[submission_index] =
                   [@ EXCEPT !.offset = offset, !.padding = size - raw_size,
                             !.size = raw_size],
               !.slot = submission_index]
        \* self.buffer.create_sub_resource(raw_size, offset)?
        sub_resource == create_sub_resource(Buffer(st), 0, raw_size, offset)
    IN  IF sub_resource.ok
        THEN [claimed EXCEPT !.sub = sub_resource.sub]
        ELSE [claimed EXCEPT !.ok = FALSE, !.reason = "sub_resource"]

\* an allocate that retires completed submissions on every call
allocate_cleaning_first(st0, raw_size) ==
    LET size == align_data(raw_size, D3D12_TEXTURE_DATA_PLACEMENT_ALIGNMENT)
        st == clean_up_submissions(st0)
    IN  IF st.err THEN st
        ELSE IF ~SlotAvailable(st.submissions_used) THEN Reject(st, "slots")
        ELSE IF ~(size < st.buffer_size) THEN Reject(st, "size")
        ELSE IF ~SpaceAvailable(st.buffer_head, st.buffer_tail, size, st.buffer_size)
             THEN Reject(st, "space")
        ELSE Claim(st, raw_size, size)

\* UploadRingBuffer::allocate(size) on the ring st0
allocate(st0, raw_size) ==
    LET size == align_data(raw_size, D3D12_TEXTURE_DATA_PLACEMENT_ALIGNMENT)
        st == IF st0.submissions_used >= MAX_NUMBER_SUBMISSIONS
              THEN clean_up_submissions(st0)
              ELSE st0
    IN  IF st.err THEN st
        ELSE IF ~SlotAvailable(st.submissions_used) THEN Reject(st, "slots")
        ELSE IF ~(size < st.buffer_size) THEN Reject(st, "size")
        ELSE IF ~SpaceAvailable(st.buffer_head, st.buffer_tail, size, st.buffer_size)
             THEN Reject(st, "space")
        ELSE Claim(st, raw_size, size)


(***************************************************************************)
(* heap.rs                                                                 *)
(***************************************************************************)
\* Heap::new
NewHeap(size) == [size |-> size, curr_offset |-> 0, num_objects |-> 0]

PlacedOutcomes == {"ok", "CreatePlacedResource", "SetName", "Map"}

\* a placement at the current offset as it is
AlignedOffsetUnaligned(curr_offset, alignment) == curr_offset

\* let aligned_offset = align_data(self.curr_offset, allocation_info.Alignment)
AlignedOffset(curr_offset, alignment) == align_data(curr_offset, alignment)

\* Heap::create_resource(desc, mapped) on the heap h, where the device
\* reports info for desc, would make device resource id, and outcome names
\* the device call that fails
create_resource(h, id, width, height, info, mapped, outcome) ==
    LET counted == [h EXCEPT !.num_objects = @ + 1]
        resource_size == width * height
        aligned_offset == AlignedOffset(h.curr_offset, info.Alignment)
        total_size == (aligned_offset - h.curr_offset) + info.SizeInBytes
        advanced == [counted EXCEPT !.curr_offset = @ + total_size]
        none == [ok |-> FALSE, reason |-> "space", heap |-> counted, made |-> FALSE,
                 log |-> << >>, resource |-> NoSubResource,
                 aligned_offset |-> aligned_offset, total_size |-> total_size]
    IN  IF ~(total_size < (h.size - h.curr_offset)) THEN none
        ELSE IF outcome = "CreatePlacedResource" THEN [none EXCEPT !.reason = outcome]
        ELSE IF outcome = "SetName"
        THEN [none EXCEPT !.reason = outcome, !.made = TRUE,
                          !.log = <<"Create", "Release">>]
        ELSE IF mapped /\ outcome = "Map"
        THEN [none EXCEPT !.reason = outcome, !.made = TRUE, !.heap = advanced,
                          !.log = <<"Create", "Release">>]
        ELSE [none EXCEPT
                !.ok = TRUE, !.reason = "none", !.made = TRUE, !.heap = advanced,
                !.log = IF mapped THEN <<"Create", "Map">> ELSE <<"Create">>,
                !.resource = [device_resource |-> id, size |-> resource_size,
                              mapped_data |-> IF mapped THEN MapAddress(id)
                                              ELSE NullPtr,
                              alive |-> TRUE]]

(***************************************************************************)
(* descriptor_heap.rs                                                      *)
(***************************************************************************)
Unset == "Unset"
DescriptorKinds == {"Resource", "DepthStencilView", "RenderTargetView"}
DescriptorTypes == DescriptorKinds \cup {Unset}

\* Descriptor::default()
DefaultDescriptor == [tag |-> Unset, index |-> 0]

\* what the device reports for the heap of a kind: the start addresses and
\* the handle increment; only the resource heap is shader visible
DeviceHeap(kind) ==
    CASE kind = "Resource" -> [cpu |-> 4096, gpu |-> 8192, increment |-> 32]
      [] kind = "DepthStencilView" -> [cpu |-> 1024, gpu |-> 0, increment |-> 8]
      [] kind = "RenderTargetView" -> [cpu |-> 2048, gpu |-> 0, increment |-> 16]

HeapCapacity(kind) ==
    CASE kind = "Resource" -> MaxResourceDescriptors
      [] kind = "DepthStencilView" -> MaxDsvDescriptors
      [] kind = "RenderTargetView" -> MaxRtvDescriptors

create_heap(kind, num_descriptors) ==
    [heap_start |-> DeviceHeap(kind).cpu,
     gpu_start |-> DeviceHeap(kind).gpu,
     descriptor_size |-> DeviceHeap(kind).increment,
     num_descriptors |-> num_descriptors,
     num_allocated |-> 0]

NoHandle == [ok |-> FALSE, ptr |-> -1]

\* a bump allocation that still succeeds on a full heap
allocate_handle_inclusive(heap) ==
    IF heap.num_allocated <= heap.num_descriptors
    THEN [ok |-> TRUE,
          heap |-> [heap EXCEPT !.num_allocated = @ + 1],
          index |-> heap.num_allocated,
          ptr |-> heap.heap_start + heap.num_allocated * heap.descriptor_size]
    ELSE [ok |-> FALSE, heap |-> heap, index |-> -1, ptr |-> -1]

\* DescriptorHeap::allocate_handle
allocate_handle(heap) ==
    IF heap.num_allocated < heap.num_descriptors
    THEN [ok |-> TRUE,
          heap |-> [heap EXCEPT !.num_allocated = @ + 1],
          index |-> (heap.num_allocated + 1) - 1,
          ptr |-> heap.heap_start + heap.num_allocated * heap.descriptor_size]
    ELSE [ok |-> FALSE, heap |-> heap, index |-> -1, ptr |-> -1]

\* a lookup without the bounds check
DescriptorHeap_get_cpu_handle_unchecked(heap, index) ==
    [ok |-> TRUE, ptr |-> heap.heap_start + index * heap.descriptor_size]

\* DescriptorHeap::get_cpu_handle
DescriptorHeap_get_cpu_handle(heap, index) ==
    IF index < heap.num_allocated
    THEN [ok |-> TRUE, ptr |-> heap.heap_start + index * heap.descriptor_size]
    ELSE NoHandle

\* DescriptorHeap::get_gpu_handle
DescriptorHeap_get_gpu_handle(heap, index) ==
    IF index < heap.num_allocated
    THEN [ok |-> TRUE, ptr |-> heap.gpu_start + index * heap.descriptor_size]
    ELSE NoHandle

(***************************************************************************)
(* descriptor_manager.rs                                                   *)
(***************************************************************************)
\* a get_handle that takes the oldest released index
get_handle_fifo(heap, free_list) ==
    IF free_list # << >>
    THEN [ok |-> TRUE, heap |-> heap, free_list |-> Tail(free_list),
          index |-> Head(free_list), bumped |-> FALSE, ptr |-> -1]
    ELSE LET a == allocate_handle(heap) IN
         [ok |-> a.ok, heap |-> a.heap, free_list |-> free_list,
          index |-> a.index, bumped |-> a.ok, ptr |-> a.ptr]

\* a get_handle that asks the heap first and gives up when it is full
get_handle_heap_first(heap, free_list) ==
    IF heap.num_allocated >= heap.num_descriptors
    THEN [ok |-> FALSE, heap |-> heap, free_list |-> free_list,
          index |-> -1, bumped |-> FALSE, ptr |-> -1]
    ELSE IF free_list # << >>
    THEN [ok |-> TRUE, heap |-> heap,
          free_list |-> SubSeq(free_list, 1, Len(free_list) - 1),
          index |-> free_list[Len(free_list)], bumped |-> FALSE, ptr |-> -1]
    ELSE LET a == allocate_handle(heap) IN
         [ok |-> a.ok, heap |-> a.heap, free_list |-> free_list,
          index |-> a.index, bumped |-> a.ok, ptr |-> a.ptr]

\* a get_handle that never looks at the free list
get_handle_bump_only(heap, free_list) ==
    LET a == allocate_handle(heap) IN
    [ok |-> a.ok, heap |-> a.heap, free_list |-> free_list,
     index |-> a.index, bumped |-> a.ok, ptr |-> a.ptr]

\* get_handle(heap, free_list): Vec::pop takes the last pushed index
get_handle(heap, free_list) ==
    IF free_list # << >>
    THEN [ok |-> TRUE, heap |-> heap,
          free_list |-> SubSeq(free_list, 1, Len(free_list) - 1),
          index |-> free_list[Len(free_list)], bumped |-> FALSE, ptr |-> -1]
    ELSE LET a == allocate_handle(heap) IN
         [ok |-> a.ok, heap |-> a.heap, free_list |-> free_list,
          index |-> a.index, bumped |-> a.ok, ptr |-> a.ptr]

\* DescriptorManager::allocate(descriptor_type) on the heaps hs and the free
\* lists fl
DescriptorManager_allocate(hs, fl, descriptor_type) ==
    IF descriptor_type = Unset
    THEN [ok |-> FALSE, heaps |-> hs, free_lists |-> fl,
          descriptor |-> DefaultDescriptor, bumped |-> FALSE, ptr |-> -1]
    ELSE LET g == get_handle(hs[descriptor_type], fl[descriptor_type]) IN
         [ok |-> g.ok,
          heaps |-> [hs EXCEPT ![descriptor_type] = g.heap],
          free_lists |-> [fl EXCEPT ![descriptor_type] = g.free_list],
          descriptor |-> IF g.ok THEN [tag |-> descriptor_type, index |-> g.index]
                         ELSE DefaultDescriptor,
          bumped |-> g.bumped, ptr |-> g.ptr]

\* a free that pushes the index onto the free list of every kind
DescriptorManager_free_every_kind(fl, descriptor) ==
    IF descriptor.tag = Unset
    THEN fl
    ELSE [k \in DOMAIN fl |-> Append(fl[k], descriptor.index)]

\* DescriptorManager::free(descriptor) on the free lists fl
DescriptorManager_free(fl, descriptor) ==
    IF descriptor.tag = Unset
    THEN fl
    ELSE [fl EXCEPT ![descriptor.tag] = Append(@, descriptor.index)]

\* DescriptorManager::get_cpu_handle(descriptor)
DescriptorManager_get_cpu_handle(hs, descriptor) ==
    IF descriptor.tag = Unset
    THEN NoHandle
    ELSE DescriptorHeap_get_cpu_handle(hs[descriptor.tag], descriptor.index)

\* DescriptorManager::get_gpu_handle(descriptor)
DescriptorManager_get_gpu_handle(hs, descriptor) ==
    IF descriptor.tag = Unset
    THEN NoHandle
    ELSE DescriptorHeap_get_gpu_handle(hs[descriptor.tag], descriptor.index)

(***************************************************************************)
(* renderer.rs                                                             *)
(***************************************************************************)
\* const FRAME_COUNT: u32 = 2;
FRAME_COUNT == 2
FrameIndices == 0 .. (FRAME_COUNT - 1)

NotWaiting == -1

\* the commands of the Renderer's command_queue
ExecuteCmd(allocator) == [op |-> "Exec", allocator |-> allocator, value |-> 0]
FrameSignalCmd(value) == [op |-> "Signal", allocator |-> -1, value |-> value]

NoFrameEv == [op |-> "new", allocator |-> -1, reused |-> FALSE, in_flight |-> 0]

\* a move_to_next_frame that never waits
NeedsWaitNever(completed_value, fence_value) == FALSE

\* if completed_value < resources.fence_values[resources.frame_index as usize]
NeedsWait(completed_value, fence_value) == completed_value < fence_value

\* Renderer::new on a new swap chain, whose current back buffer is 0:
\* fence_values = [0; 2], CreateFence(fence_values[frame_index]),
\* fence_values[frame_index] += 1, then wait_for_gpu, which signals that
\* value, waits for it and adds 1 again
RendererNew ==
    /\ frame_index = 0
    /\ fence_values = [i \in FrameIndices |-> IF i = 0 THEN 2 ELSE 0]
    /\ frame_fence = 1
    /\ command_queue = << >>
    /\ render_wait = NotWaiting
    /\ frames_left = MaxFrames
    /\ signaled = <<1>>
    /\ last_use = [i \in FrameIndices |-> 0]
    /\ r_event = NoFrameEv

(***************************************************************************)
(* The caller's workloads, and the record of the last step                 *)
(***************************************************************************)
Unit == D3D12_TEXTURE_DATA_PLACEMENT_ALIGNMENT

\* the kinds of the program's queues
ProgramKinds == [q \in QueueIds |-> QueueKind(q)]

Harnesses ==
    { [name |-> "ring", buffer_size |-> RingUnits * Unit, sizes |-> {300, 1024, 1536},
       allocs |-> MaxAllocsRing, qcalls |-> 0, dep |-> FALSE, drop |-> TRUE,
       kinds |-> ProgramKinds],
      [name |-> "pool", buffer_size |-> PoolUnits * Unit, sizes |-> {512},
       allocs |-> MaxAllocsPool, qcalls |-> 0, dep |-> FALSE, drop |-> FALSE,
       kinds |-> ProgramKinds],
      [name |-> "xq", buffer_size |-> XqUnits * Unit, sizes |-> {512},
       allocs |-> MaxAllocsXq, qcalls |-> MaxQueueCalls, dep |-> TRUE, drop |-> FALSE,
       kinds |-> ProgramKinds] }

Ready == [q |-> "none", value |-> 0, op |-> "none"]
NoRetry == [size |-> -1, drained |-> FALSE]

Ev(op, q, arg, ok, ret, slot, retired, reason, cleaned, retried) ==
    [op |-> op, q |-> q, arg |-> arg, ok |-> ok, ret |-> ret, slot |-> slot,
     retired |-> retired, reason |-> reason, cleaned |-> cleaned, retried |-> retried,
     queries |-> 0, sub |-> NoSubResource]

QueueEv(op, q, arg, ok, ret) ==
    Ev(op, q, arg, ok, ret, -1, << >>, "none", FALSE, FALSE)

\* the record of a heap or resource call: what was asked (r, v, w, n, off,
\* size, width, info, mapped, outcome) and what it did
NoHeapEv ==
    [op |-> "new", ok |-> TRUE, reason |-> "none", r |-> 0, v |-> 0, w |-> 0,
     n |-> 0, off |-> 0, size |-> 0, width |-> 0,
     info |-> [Alignment |-> 1, SizeInBytes |-> 0], mapped |-> FALSE,
     outcome |-> "ok", aligned_offset |-> 0, total_size |-> 0,
     write |-> NoWrite, copy |-> NoCopy]

\* the record of a descriptor call
DescEv(op, tag, index, ok, bumped, ptr) ==
    [op |-> op, tag |-> tag, index |-> index, ok |-> ok, bumped |-> bumped, ptr |-> ptr]

\* the indices a caller can name for a heap: its slots and one beyond
Indices(kind) == 0 .. HeapCapacity(kind)

RECURSIVE SumTo(_, _)
SumTo(f, n) == IF n < 0 THEN 0 ELSE f[n] + SumTo(f, n - 1)

\* handles of a kind returned by allocate and not released
LiveCount(h, kind) == SumTo(h[kind], HeapCapacity(kind))

InSeq(x, s) == \E k \in 1 .. Len(s) : s[k] = x

\* fence values of the unretired slots are all complete on the device
AllOutstandingComplete ==
    \A k \in 1 .. Len(alloc_order) :
        submissions[alloc_order[k]].fence_value <= fence["upload"]

\* the state after construction, for the workload h
InitWith(h) ==
    /\ harness = h
    /\ buffer_size = h.buffer_size
    /\ allocs_left = h.allocs
    /\ qcalls_left = h.qcalls
    /\ buffer_head = 0
    /\ buffer_tail = 0
    /\ submissions = [i \in Slots |-> FreeSubmission]
    /\ submissions_start = 0
    /\ submissions_used = 0
    /\ closes = 0
    /\ upload = NoUpload
    /\ queues = [q \in QueueIds |-> NewQueue(h.kinds[q])]
    \* fence.Signal(last_fence_value)
    /\ fence = [q \in QueueIds |-> NewQueue(h.kinds[q]).last_fence_value]
    /\ gpu = [q \in QueueIds |-> << >>]
    /\ running = [q \in QueueIds |-> Idle]
    /\ cpu = Ready
    /\ event = QueueEv("new", "none", 0, TRUE, 0)
    /\ phase = [i \in Slots |-> "Free"]
    /\ alloc_order = << >>
    /\ dep_need = 0
    /\ all_submitted = TRUE
    /\ retry = NoRetry
    \* DescriptorManager::new
    /\ descriptor_heaps = [k \in DescriptorKinds |-> create_heap(k, HeapCapacity(k))]
    /\ free_lists = [k \in DescriptorKinds |-> << >>]
    /\ held = [k \in DescriptorKinds |-> [i \in Indices(k) |-> 0]]
    /\ stale = [k \in DescriptorKinds |-> {}]
    /\ d_event = DescEv("new", Unset, 0, TRUE, FALSE, -1)
    /\ dcalls_left = MaxDescriptorCalls
    /\ issued = [k \in DescriptorKinds |-> << >>]
    /\ high_water = [k \in DescriptorKinds |-> 0]
    /\ double_freed = FALSE
    \* Heap::new
    /\ mem_heap = NewHeap(HeapBytes)
    /\ views = << >>
    /\ command_list = << >>
    /\ h_event = NoHeapEv
    /\ hcalls_left = MaxHeapCalls
    /\ placed = << >>
    /\ fence_calls = [q \in QueueIds |-> 0]
    /\ RendererNew

\* no Resource was made yet
NoResources ==
    /\ resources = << >>
    /\ dev_log = << >>

Init == \E h \in Harnesses : InitWith(h) /\ NoResources

\* the ring buffer's fields after a call that returned r
RingBecomes(r) ==
    /\ buffer_head' = r.buffer_head
    /\ buffer_tail' = r.buffer_tail
    /\ submissions' = r.submissions
    /\ submissions_start' = r.submissions_start
    /\ submissions_used' = r.submissions_used
    /\ queues' = [queues EXCEPT !["upload"].last_fence_value = r.last_fence_value]
    /\ UNCHANGED buffer_size

(***************************************************************************)
(* UploadRingBuffer::allocate(size)                                        *)
(***************************************************************************)
Allocate(raw_size) ==
    /\ cpu = Ready
    /\ UNCHANGED outsideSync
    /\ upload = NoUpload
    /\ allocs_left > 0
    /\ LET r == allocate(Ring, raw_size) IN
       /\ RingBecomes(r)
       \* command_list.Reset(&submission.command_allocator, None)
       /\ closes' = IF r.slot >= 0 THEN 0 ELSE closes
       /\ upload' = IF r.ok THEN r.slot ELSE NoUpload
       /\ phase' = [i \in Slots |->
                      IF i = r.slot THEN "Claimed"
                      ELSE IF InSeq(i, r.retired) THEN "Free"
                      ELSE phase[i]]
       /\ alloc_order' =
              LET kept == SelectSeq(alloc_order, LAMBDA i : ~InSeq(i, r.retired))
              IN IF r.slot >= 0 THEN Append(kept, r.slot) ELSE kept
       /\ retry' = IF r.reason \in {"slots", "size", "space"}
                   THEN [size |-> raw_size, drained |-> FALSE]
                   ELSE NoRetry
       /\ event' = [Ev("allocate", "upload", raw_size, r.ok, -1, r.slot, r.retired,
                         r.reason, r.cleaned,
                         retry.size = raw_size /\ retry.drained)
                       EXCEPT !.sub = r.sub]
    /\ allocs_left' = allocs_left - 1
    /\ UNCHANGED <<gpuVars, cpu, harness, qcalls_left, dep_need, all_submitted>>

\* a submit that stamps the slot with the queue's cached completed value
SubmitStale(dependent) ==
    /\ cpu = Ready
    /\ UNCHANGED outsideSync
    /\ upload # NoUpload
    /\ dependent => harness.dep
    /\ LET x == execute_command_list(queues["upload"], upload)
           waits == IF dependent
                    THEN insert_wait_for_queue_fence("upload", x.ret)
                    ELSE << >>
       IN
       /\ closes' = closes + 1
       /\ queues' = [queues EXCEPT !["upload"] = x.queue]
       /\ submissions' = [submissions EXCEPT
                            ![upload].fence_value = queues["upload"].last_fence_value]
       /\ gpu' = [gpu EXCEPT !["upload"] = @ \o x.cmds, !["graphics"] = @ \o waits]
       /\ dep_need' = IF dependent THEN Max(dep_need, x.ret) ELSE dep_need
       /\ event' = Ev("submit", IF dependent THEN "graphics" ELSE "none", 0, TRUE,
                      x.ret, upload, << >>, "none", FALSE, FALSE)
    /\ phase' = [phase EXCEPT ![upload] = "Submitted"]
    /\ upload' = NoUpload
    /\ UNCHANGED <<buffer_size, buffer_head, buffer_tail, submissions_start,
                   submissions_used, fence, running, cpu, harness, allocs_left,
                   qcalls_left, alloc_order, all_submitted, retry>>

(***************************************************************************)
(* Upload::submit(dependent_queue)                                         *)
(***************************************************************************)
Submit(dependent) ==
    /\ cpu = Ready
    /\ UNCHANGED outsideSync
    /\ upload # NoUpload
    /\ dependent => harness.dep
    /\ LET x == execute_command_list(queues["upload"], upload)
           waits == IF dependent
                    THEN insert_wait_for_queue_fence("upload", x.ret)
                    ELSE << >>
       IN
       \* self.submission.command_list.Close()
       /\ closes' = closes + 1
       /\ queues' = [queues EXCEPT !["upload"] = x.queue]
       /\ submissions' = [submissions EXCEPT ![upload].fence_value = x.ret]
       /\ gpu' = [gpu EXCEPT !["upload"] = @ \o x.cmds, !["graphics"] = @ \o waits]
       /\ dep_need' = IF dependent THEN Max(dep_need, x.ret) ELSE dep_need
       /\ event' = Ev("submit", IF dependent THEN "graphics" ELSE "none", 0, TRUE,
                      x.ret, upload, << >>, "none", FALSE, FALSE)
    /\ phase' = [phase EXCEPT ![upload] = "Submitted"]
    /\ upload' = NoUpload
    /\ UNCHANGED <<buffer_size, buffer_head, buffer_tail, submissions_start,
                   submissions_used, fence, running, cpu, harness, allocs_left,
                   qcalls_left, alloc_order, all_submitted, retry>>

(***************************************************************************)
(* An Upload that goes out of scope without submit, as on the error paths  *)
(* of TextureManager between allocate and submit                           *)
(***************************************************************************)
DropUpload ==
    /\ cpu = Ready
    /\ UNCHANGED outsideSync
    /\ upload # NoUpload
    /\ harness.drop
    /\ upload' = NoUpload
    /\ all_submitted' = FALSE
    /\ event' = Ev("drop", "none", 0, TRUE, -1, upload, << >>, "none", FALSE, FALSE)
    /\ UNCHANGED <<ringVars, queues, gpuVars, cpu, harness, allocs_left, qcalls_left,
                   phase, alloc_order, dep_need, retry>>

(***************************************************************************)
(* UploadRingBuffer::submit(upload, dependent_queue).  It takes &mut self  *)
(* and an Upload; an Upload borrows the ring buffer that made it, so the   *)
(* call compiles only on another UploadRingBuffer, whose upload_queue is   *)
(* "upload2".                                                              *)
(***************************************************************************)
RingSubmit(dependent) ==
    /\ cpu = Ready
    /\ UNCHANGED outsideSync
    /\ upload # NoUpload
    /\ dependent => harness.dep
    /\ LET x == execute_command_list(queues["upload2"], upload)
           waits == IF dependent
                    THEN insert_wait_for_queue_fence("upload2", x.ret)
                    ELSE << >>
       IN
       /\ queues' = [queues EXCEPT !["upload2"] = x.queue]
       /\ submissions' = [submissions EXCEPT ![upload].fence_value = x.ret]
       /\ gpu' = [gpu EXCEPT !["upload2"] = @ \o x.cmds, !["graphics"] = @ \o waits]
       /\ event' = Ev("ring.submit", IF dependent THEN "graphics" ELSE "none", 0, TRUE,
                      x.ret, upload, << >>, "none", FALSE, FALSE)
    /\ phase' = [phase EXCEPT ![upload] = "Submitted"]
    /\ upload' = NoUpload
    /\ UNCHANGED <<buffer_size, buffer_head, buffer_tail, submissions_start,
                   submissions_used, closes, fence, running, cpu, harness, allocs_left,
                   qcalls_left, alloc_order, dep_need, all_submitted, retry>>

(***************************************************************************)
(* UploadRingBuffer::clean_up_submissions()                                *)
(***************************************************************************)
CleanUp ==
    /\ cpu = Ready
    /\ UNCHANGED outsideSync
    /\ upload = NoUpload
    /\ LET r == clean_up_submissions(Ring) IN
       /\ RingBecomes(r)
       /\ phase' = [i \in Slots |-> IF InSeq(i, r.retired) THEN "Free" ELSE phase[i]]
       /\ alloc_order' = SelectSeq(alloc_order, LAMBDA i : ~InSeq(i, r.retired))
       /\ retry' = IF retry # NoRetry /\ AllOutstandingComplete
                   THEN [retry EXCEPT !.drained = TRUE]
                   ELSE retry
       /\ event' = Ev("clean_up_submissions", "upload", 0, r.ok, -1, -1, r.retired,
                      r.reason, TRUE, FALSE)
    /\ UNCHANGED <<closes, upload, gpuVars, cpu, harness, allocs_left, qcalls_left, dep_need,
                   all_submitted>>


(***************************************************************************)
(* CommandQueue calls of the caller on its graphics queue                  *)
(***************************************************************************)
QueueCall(q) ==
    /\ cpu = Ready
    /\ q = "graphics"
    /\ qcalls_left > 0
    /\ qcalls_left' = qcalls_left - 1
    /\ UNCHANGED outsideSync

IssuedValues(q) == FenceBase(QueueKind(q)) .. (queues[q].next_fence_value - 1)

\* execute_command_list(list): the list is tagged with the transfer fence
\* value the uploads it depends on were submitted with
QExecute(q) ==
    /\ QueueCall(q)
    /\ LET x == execute_command_list(queues[q], -1)
           cmds == <<[x.cmds[1] EXCEPT !.need = dep_need], x.cmds[2]>>
       IN
       /\ queues' = [queues EXCEPT ![q] = x.queue]
       /\ gpu' = [gpu EXCEPT ![q] = @ \o cmds]
       /\ event' = QueueEv("execute_command_list", q, 0, TRUE, x.ret)
    /\ UNCHANGED <<ringVars, upload, fence, running, cpu, harness, allocs_left, histVars>>

\* is_fence_complete(v)
QIsFenceComplete(q, v) ==
    /\ QueueCall(q)
    /\ queues' = [queues EXCEPT
                    ![q].last_fence_value = FenceCacheAfter(@, fence[q], v)]
    /\ event' = [QueueEv("is_fence_complete", q, v,
                          is_fence_complete(queues[q].last_fence_value, fence[q], v), -1)
                    EXCEPT !.queries = fence_queries(queues[q].last_fence_value, v)]
    /\ UNCHANGED <<ringVars, upload, gpuVars, cpu, harness, allocs_left, histVars>>

\* insert_wait(v)
QInsertWait(q, v) ==
    /\ QueueCall(q)
    /\ gpu' = [gpu EXCEPT ![q] = @ \o insert_wait(q, v)]
    /\ event' = QueueEv("insert_wait", q, v, TRUE, -1)
    /\ UNCHANGED <<ringVars, upload, queues, fence, running, cpu, harness, allocs_left,
                   histVars>>

\* a wait that arms the event without asking is_fence_complete first
QWaitForFenceBlockingAlways(q, v, op) ==
    /\ QueueCall(q)
    /\ cpu' = [q |-> q, value |-> v, op |-> op]
    /\ event' = QueueEv(op, q, v, FALSE, -1)
    /\ UNCHANGED <<ringVars, upload, queues, gpuVars, harness, allocs_left, histVars>>

\* wait_for_fence_blocking(v) up to WaitForSingleObject: returns at once when
\* is_fence_complete(v), else arms the event and blocks
QWaitForFenceBlocking(q, v, op) ==
    /\ QueueCall(q)
    /\ queues' = [queues EXCEPT
                    ![q].last_fence_value = FenceCacheAfter(@, fence[q], v)]
    /\ IF is_fence_complete(queues[q].last_fence_value, fence[q], v)
       THEN /\ cpu' = Ready
            /\ event' = QueueEv(op, q, v, TRUE, -1)
       ELSE /\ cpu' = [q |-> q, value |-> v, op |-> op]
            /\ event' = QueueEv(op, q, v, FALSE, -1)
    /\ UNCHANGED <<ringVars, upload, gpuVars, harness, allocs_left, histVars>>

\* a wait for the value before the last one issued
QWaitForIdleStale(q) ==
    QWaitForFenceBlocking(q, queues[q].next_fence_value - 2, "wait_for_idle")

\* wait_for_idle(): wait_for_fence_blocking(next_fence_value - 1)
QWaitForIdle(q) ==
    QWaitForFenceBlocking(q, queues[q].next_fence_value - 1, "wait_for_idle")

\* a wait that returns although the fence has not reached the value
WakeEarly ==
    /\ cpu # Ready
    /\ UNCHANGED outsideSync
    /\ queues' = [queues EXCEPT ![cpu.q].last_fence_value = cpu.value]
    /\ cpu' = Ready
    /\ event' = Ev("woken", cpu.q, cpu.value, TRUE, -1, -1, << >>, cpu.op, FALSE, FALSE)
    /\ UNCHANGED <<ringVars, upload, gpuVars, harness, allocs_left, qcalls_left,
                   histVars>>

\* wait_for_fence_blocking after WaitForSingleObject returned:
\* self.last_fence_value = fence_value; the event's reason names the call
\* that returns
Wake ==
    /\ cpu # Ready
    /\ UNCHANGED outsideSync
    /\ fence[cpu.q] >= cpu.value
    /\ queues' = [queues EXCEPT ![cpu.q].last_fence_value = cpu.value]
    /\ cpu' = Ready
    /\ event' = Ev("woken", cpu.q, cpu.value, TRUE, -1, -1, << >>, cpu.op, FALSE, FALSE)
    /\ UNCHANGED <<ringVars, upload, gpuVars, harness, allocs_left, qcalls_left,
                   histVars>>

(***************************************************************************)
(* The GPU: each queue runs its commands in submission order               *)
(***************************************************************************)
\* the queue starts executing the command list at its head
GpuStart(q) ==
    /\ gpu[q] # << >>
    /\ UNCHANGED outsideSync
    /\ Head(gpu[q]).op = "Exec"
    /\ running[q] = Idle
    /\ running' = [running EXCEPT ![q] = Head(gpu[q])]
    /\ gpu' = [gpu EXCEPT ![q] = Tail(@)]
    /\ event' = QueueEv("gpu_start", q, Head(gpu[q]).list, TRUE, -1)
    /\ UNCHANGED <<ringVars, upload, queues, fence, cpu, harness, allocs_left,
                   qcalls_left, histVars>>

\* the work before a Signal has finished: the fence takes the signaled value
GpuSignal(q) ==
    /\ gpu[q] # << >>
    /\ UNCHANGED outsideSync
    /\ Head(gpu[q]).op = "Signal"
    /\ fence' = [fence EXCEPT ![q] = Head(gpu[q]).value]
    /\ running' = [running EXCEPT ![q] = Idle]
    /\ gpu' = [gpu EXCEPT ![q] = Tail(@)]
    /\ event' = QueueEv("gpu_signal", q, Head(gpu[q]).value, TRUE, -1)
    /\ UNCHANGED <<ringVars, upload, queues, cpu, harness, allocs_left, qcalls_left,
                   histVars>>

\* a Wait is passed once the fence it names has reached the value
GpuWait(q) ==
    /\ gpu[q] # << >>
    /\ UNCHANGED outsideSync
    /\ Head(gpu[q]).op = "Wait"
    /\ fence[Head(gpu[q]).q] >= Head(gpu[q]).value
    /\ gpu' = [gpu EXCEPT ![q] = Tail(@)]
    /\ event' = QueueEv("gpu_wait", q, Head(gpu[q]).value, TRUE, -1)
    /\ UNCHANGED <<ringVars, upload, queues, fence, running, cpu, harness, allocs_left,
                   qcalls_left, histVars>>

AllocateAny == \E raw_size \in harness.sizes : Allocate(raw_size)
SubmitAny == \E dependent \in BOOLEAN : Submit(dependent)
QIsFenceCompleteAny ==
    \E v \in FenceBase(QueueKind("graphics")) .. queues["graphics"].next_fence_value :
        QIsFenceComplete("graphics", v)
QInsertWaitAny == \E v \in IssuedValues("graphics") : QInsertWait("graphics", v)
QWaitForFenceBlockingAny ==
    \E v \in IssuedValues("graphics") :
        QWaitForFenceBlocking("graphics", v, "wait_for_fence_blocking")
GpuStartAny == \E q \in QueueIds : GpuStart(q)
GpuSignalAny == \E q \in QueueIds : GpuSignal(q)
GpuWaitAny == \E q \in QueueIds : GpuWait(q)

Next ==
    \/ AllocateAny
    \/ SubmitAny
    \/ DropUpload
    \/ CleanUp
    \/ QExecute("graphics")
    \/ QIsFenceCompleteAny
    \/ QInsertWaitAny
    \/ QWaitForFenceBlockingAny
    \/ QWaitForIdle("graphics")
    \/ Wake
    \/ GpuStartAny
    \/ GpuSignalAny
    \/ GpuWaitAny

Spec == Init /\ [][Next]_vars

(***************************************************************************)
(* The caller of the DescriptorManager                                     *)
(***************************************************************************)
DescriptorCall ==
    /\ dcalls_left > 0
    /\ dcalls_left' = dcalls_left - 1
    /\ UNCHANGED outsideDesc

\* DescriptorManager::allocate(descriptor_type)
DAllocate(descriptor_type) ==
    /\ DescriptorCall
    /\ LET r == DescriptorManager_allocate(descriptor_heaps, free_lists, descriptor_type)
           k == r.descriptor.tag
           h == IF r.ok THEN [held EXCEPT ![k][r.descriptor.index] = @ + 1] ELSE held
       IN
       /\ descriptor_heaps' = r.heaps
       /\ free_lists' = r.free_lists
       /\ held' = h
       /\ high_water' = IF r.ok
                        THEN [high_water EXCEPT ![k] = Max(@, LiveCount(h, k))]
                        ELSE high_water
       /\ issued' = IF r.bumped THEN [issued EXCEPT ![k] = Append(@, r.ptr)] ELSE issued
       /\ d_event' = DescEv("allocate", descriptor_type, r.descriptor.index, r.ok,
                            r.bumped, r.ptr)
    /\ UNCHANGED <<stale, double_freed>>

\* DescriptorManager::free(descriptor) of a handle that is live; Descriptor is
\* Copy, so the caller keeps a copy of the released handle
DFreeLive(descriptor) ==
    /\ DescriptorCall
    /\ held[descriptor.tag][descriptor.index] > 0
    /\ free_lists' = DescriptorManager_free(free_lists, descriptor)
    /\ held' = [held EXCEPT ![descriptor.tag][descriptor.index] = @ - 1]
    /\ stale' = [stale EXCEPT ![descriptor.tag] = @ \cup {descriptor.index}]
    /\ d_event' = DescEv("free", descriptor.tag, descriptor.index, TRUE, FALSE, -1)
    /\ UNCHANGED <<descriptor_heaps, issued, high_water, double_freed>>

\* DescriptorManager::free(descriptor) of a copy of a handle released before
DFreeAgain(descriptor) ==
    /\ DescriptorCall
    /\ descriptor.index \in stale[descriptor.tag]
    /\ free_lists' = DescriptorManager_free(free_lists, descriptor)
    /\ double_freed' = TRUE
    /\ d_event' = DescEv("free_again", descriptor.tag, descriptor.index, TRUE, FALSE, -1)
    /\ UNCHANGED <<descriptor_heaps, held, stale, issued, high_water>>

\* DescriptorManager::free(Descriptor::default())
DFreeUnset ==
    /\ DescriptorCall
    /\ free_lists' = DescriptorManager_free(free_lists, DefaultDescriptor)
    /\ d_event' = DescEv("free", Unset, 0, TRUE, FALSE, -1)
    /\ UNCHANGED <<descriptor_heaps, held, stale, issued, high_water, double_freed>>

\* the handles the caller can pass: live ones, copies of released ones, and
\* the default one
CallerHandles ==
    {DefaultDescriptor} \cup
    {[tag |-> k, index |-> i] : k \in DescriptorKinds, i \in 0 .. MaxResourceDescriptors}

HasHandle(descriptor) ==
    \/ descriptor = DefaultDescriptor
    \/ /\ descriptor.tag \in DescriptorKinds
       /\ descriptor.index \in Indices(descriptor.tag)
       /\ \/ held[descriptor.tag][descriptor.index] > 0
          \/ descriptor.index \in stale[descriptor.tag]

Lookup(op, tag, index, r) ==
    /\ DescriptorCall
    /\ d_event' = DescEv(op, tag, index, r.ok, FALSE, r.ptr)
    /\ UNCHANGED <<descriptor_heaps, free_lists, held, stale, issued, high_water,
                   double_freed>>

\* DescriptorManager::get_cpu_handle(descriptor) and get_gpu_handle(descriptor)
ManagerGetCpuHandle(descriptor) ==
    /\ HasHandle(descriptor)
    /\ Lookup("get_cpu_handle", descriptor.tag, descriptor.index,
              DescriptorManager_get_cpu_handle(descriptor_heaps, descriptor))

ManagerGetGpuHandle(descriptor) ==
    /\ HasHandle(descriptor)
    /\ Lookup("get_gpu_handle", descriptor.tag, descriptor.index,
              DescriptorManager_get_gpu_handle(descriptor_heaps, descriptor))

\* DescriptorHeap::get_cpu_handle(index) and get_gpu_handle(index) on the
\* heap of a kind, for any index
HeapGetCpuHandle(kind, index) ==
    /\ index \in Indices(kind)
    /\ Lookup("heap.get_cpu_handle", kind, index,
              DescriptorHeap_get_cpu_handle(descriptor_heaps[kind], index))

HeapGetGpuHandle(kind, index) ==
    /\ index \in Indices(kind)
    /\ Lookup("heap.get_gpu_handle", kind, index,
              DescriptorHeap_get_gpu_handle(descriptor_heaps[kind], index))

DAllocateAny == \E descriptor_type \in DescriptorTypes : DAllocate(descriptor_type)
DFreeLiveAny ==
    \E k \in DescriptorKinds : \E i \in Indices(k) : DFreeLive([tag |-> k, index |-> i])
DFreeAgainAny ==
    \E k \in DescriptorKinds : \E i \in Indices(k) : DFreeAgain([tag |-> k, index |-> i])
ManagerGetCpuHandleAny == \E d \in CallerHandles : ManagerGetCpuHandle(d)
ManagerGetGpuHandleAny == \E d \in CallerHandles : ManagerGetGpuHandle(d)
HeapGetCpuHandleAny ==
    \E k \in DescriptorKinds : \E i \in Indices(k) : HeapGetCpuHandle(k, i)
HeapGetGpuHandleAny ==
    \E k \in DescriptorKinds : \E i \in Indices(k) : HeapGetGpuHandle(k, i)

NextDescriptors ==
    \/ DAllocateAny
    \/ DFreeLiveAny
    \/ DFreeAgainAny
    \/ DFreeUnset
    \/ ManagerGetCpuHandleAny
    \/ ManagerGetGpuHandleAny
    \/ HeapGetCpuHandleAny
    \/ HeapGetGpuHandleAny

\* the DescriptorManager on its own, next to an untouched ring buffer
InitDescriptors == Init /\ harness.name = "ring"

SpecDescriptors == InitDescriptors /\ [][NextDescriptors]_vars

(***************************************************************************)
(* The caller of the Heap and of its Resources                             *)
(***************************************************************************)
HeapCall ==
    /\ hcalls_left > 0
    /\ hcalls_left' = hcalls_left - 1
    /\ UNCHANGED outsideHeap

\* the alignments the device reports for a resource
Alignments == {2, 4}

\* ID3D12Device::GetResourceAllocationInfo for a buffer of width bytes
GetResourceAllocationInfo(width, alignment) ==
    [Alignment |-> alignment, SizeInBytes |-> align_data(width, alignment)]

Widths == 1 .. MaxWidth

\* the byte counts the caller tries against a capacity of size bytes: one
\* less, as many, one more
Near(size) == {n \in {size - 1, size, size + 1} : n >= 0}

\* the offsets the caller tries
Offsets == {0, 1}

Alive(r) == r \in 1 .. Len(resources) /\ resources[r].alive

\* Heap::create_resource(desc, mapped) for a buffer desc (Height 1)
HCreateResource(width, alignment, mapped, outcome) ==
    /\ HeapCall
    /\ outcome = "Map" => mapped
    /\ LET info == GetResourceAllocationInfo(width, alignment)
           c == create_resource(mem_heap, Len(dev_log) + 1, width, 1, info, mapped,
                                outcome)
       IN
       /\ mem_heap' = c.heap
       /\ resources' = IF c.ok THEN Append(resources, c.resource) ELSE resources
       /\ dev_log' = IF c.made THEN Append(dev_log, c.log) ELSE dev_log
       /\ placed' = IF c.made
                    THEN Append(placed, [id |-> Len(dev_log) + 1,
                                         offset |-> c.aligned_offset,
                                         size |-> info.SizeInBytes,
                                         alignment |-> info.Alignment])
                    ELSE placed
       /\ h_event' = [NoHeapEv EXCEPT
                        !.op = "create_resource", !.ok = c.ok, !.reason = c.reason,
                        !.r = IF c.ok THEN Len(resources) + 1 ELSE 0,
                        !.width = width, !.info = info, !.mapped = mapped,
                        !.outcome = outcome, !.aligned_offset = c.aligned_offset,
                        !.total_size = c.total_size]
    /\ UNCHANGED <<views, command_list>>

\* Resource::create_committed(desc, mapped) for a buffer desc
HCreateCommitted(width, mapped, outcome) ==
    /\ HeapCall
    /\ outcome = "Map" => mapped
    /\ LET c == create_committed(Len(dev_log) + 1, width, 1, mapped, outcome) IN
       /\ resources' = IF c.ok THEN Append(resources, c.resource) ELSE resources
       /\ dev_log' = IF c.made THEN Append(dev_log, c.log) ELSE dev_log
       /\ h_event' = [NoHeapEv EXCEPT
                        !.op = "create_committed", !.ok = c.ok,
                        !.reason = IF c.ok THEN "none" ELSE outcome,
                        !.r = IF c.ok THEN Len(resources) + 1 ELSE 0,
                        !.width = width, !.mapped = mapped, !.outcome = outcome]
    /\ UNCHANGED <<mem_heap, views, command_list, placed>>

\* Resource::copy_from(data), data of n bytes
RCopyFrom(r, n) ==
    /\ HeapCall
    /\ Alive(r)
    /\ LET c == Resource_copy_from(resources[r], n) IN
       h_event' = [NoHeapEv EXCEPT !.op = "copy_from", !.ok = c.ok, !.r = r, !.n = n,
                                   !.write = c.write]
    /\ UNCHANGED <<mem_heap, resources, views, command_list, placed, dev_log>>

\* Resource::create_sub_resource(size, offset)
RCreateSubResource(r, size, offset) ==
    /\ HeapCall
    /\ Alive(r)
    /\ Len(views) < MaxViews
    /\ LET c == create_sub_resource(resources[r], r, size, offset) IN
       /\ views' = IF c.ok THEN Append(views, c.sub) ELSE views
       /\ h_event' = [NoHeapEv EXCEPT !.op = "create_sub_resource", !.ok = c.ok,
                                      !.r = r, !.size = size, !.off = offset,
                                      !.v = IF c.ok THEN Len(views) + 1 ELSE 0]
    /\ UNCHANGED <<mem_heap, resources, command_list, placed, dev_log>>

Parent(v) == resources[views[v].resource]

\* SubResource::copy_from(data)
VCopyFrom(v, n) ==
    /\ HeapCall
    /\ v \in 1 .. Len(views)
    /\ LET c == SubResource_copy_from(views[v], Parent(v), n) IN
       h_event' = [NoHeapEv EXCEPT !.op = "sub.copy_from", !.ok = c.ok, !.v = v,
                                   !.r = views[v].resource, !.n = n,
                                   !.write = c.write]
    /\ UNCHANGED <<mem_heap, resources, views, command_list, placed, dev_log>>

\* SubResource::copy_to_offset_from(offset, data)
VCopyToOffsetFrom(v, offset, n) ==
    /\ HeapCall
    /\ v \in 1 .. Len(views)
    /\ LET c == copy_to_offset_from(views[v], Parent(v), offset, n) IN
       h_event' = [NoHeapEv EXCEPT !.op = "sub.copy_to_offset_from", !.ok = c.ok,
                                   !.v = v, !.r = views[v].resource, !.n = n,
                                   !.off = offset, !.write = c.write]
    /\ UNCHANGED <<mem_heap, resources, views, command_list, placed, dev_log>>

\* SubResource::copy_to_resource(command_list, resource)
VCopyToResource(v, r) ==
    /\ HeapCall
    /\ v \in 1 .. Len(views)
    /\ Alive(r)
    /\ LET c == copy_to_resource(views[v], Parent(v), resources[r]) IN
       /\ command_list' = IF c.ok THEN Append(command_list, c.copy) ELSE command_list
       /\ h_event' = [NoHeapEv EXCEPT !.op = "sub.copy_to_resource", !.ok = c.ok,
                                      !.v = v, !.r = r, !.copy = c.copy]
    /\ UNCHANGED <<mem_heap, resources, views, placed, dev_log>>

\* SubResource::copy_to_sub_resource(command_list, sub_resource)
VCopyToSubResource(v, w) ==
    /\ HeapCall
    /\ v \in 1 .. Len(views)
    /\ w \in 1 .. Len(views)
    /\ LET c == copy_to_sub_resource(views[v], Parent(v), views[w], Parent(w)) IN
       /\ command_list' = IF c.ok THEN Append(command_list, c.copy) ELSE command_list
       /\ h_event' = [NoHeapEv EXCEPT !.op = "sub.copy_to_sub_resource", !.ok = c.ok,
                                      !.v = v, !.w = w, !.copy = c.copy]
    /\ UNCHANGED <<mem_heap, resources, views, placed, dev_log>>

\* the SubResource made last goes out of scope
DropView ==
    /\ HeapCall
    /\ views # << >>
    /\ views' = SubSeq(views, 1, Len(views) - 1)
    /\ h_event' = [NoHeapEv EXCEPT !.op = "drop_view", !.v = Len(views)]
    /\ UNCHANGED <<mem_heap, resources, command_list, placed, dev_log>>

\* a Resource goes out of scope; a SubResource borrows its Resource, so none
\* of its SubResources is alive
DropResource(r) ==
    /\ HeapCall
    /\ Alive(r)
    /\ \A v \in 1 .. Len(views) : views[v].resource # r
    /\ resources' = [resources EXCEPT ![r].alive = FALSE]
    /\ dev_log' = [dev_log EXCEPT ![resources[r].device_resource] =
                                     @ \o Resource_drop(resources[r])]
    /\ h_event' = [NoHeapEv EXCEPT !.op = "drop", !.r = r]
    /\ UNCHANGED <<mem_heap, views, command_list, placed>>

HCreateResourceAny ==
    \E width \in Widths : \E alignment \in Alignments : \E mapped \in BOOLEAN :
        \E outcome \in PlacedOutcomes : HCreateResource(width, alignment, mapped, outcome)
HCreateCommittedAny ==
    \E width \in Widths : \E mapped \in BOOLEAN : \E outcome \in CommittedOutcomes :
        HCreateCommitted(width, mapped, outcome)
RCopyFromAny ==
    \E r \in 1 .. Len(resources) : \E n \in Near(resources[r].size) : RCopyFrom(r, n)
RCreateSubResourceAny ==
    \E r \in 1 .. Len(resources) : \E offset \in Offsets :
        \E size \in Near(resources[r].size - offset) :
            RCreateSubResource(r, size, offset)
VCopyFromAny ==
    \E v \in 1 .. Len(views) : \E n \in Near(views[v].size) : VCopyFrom(v, n)
VCopyToOffsetFromAny ==
    \E v \in 1 .. Len(views) : \E offset \in Offsets : \E n \in Near(views[v].size) :
        VCopyToOffsetFrom(v, offset, n)
VCopyToResourceAny ==
    \E v \in 1 .. Len(views) : \E r \in 1 .. Len(resources) : VCopyToResource(v, r)
VCopyToSubResourceAny ==
    \E v \in 1 .. Len(views) : \E w \in 1 .. Len(views) : VCopyToSubResource(v, w)
DropResourceAny == \E r \in 1 .. Len(resources) : DropResource(r)

\* a committed buffer of one byte (its width plays no part in its lifecycle)
HCreateCommittedSmall ==
    \E mapped \in BOOLEAN : \E outcome \in CommittedOutcomes :
        HCreateCommitted(1, mapped, outcome)

\* the Heap: resources are placed in it, or committed beside it, and dropped
NextHeap ==
    \/ HCreateResourceAny
    \/ HCreateCommittedSmall
    \/ DropResourceAny

\* committed Resources and their SubResources
NextResource ==
    \/ HCreateCommittedAny
    \/ RCopyFromAny
    \/ RCreateSubResourceAny
    \/ VCopyFromAny
    \/ VCopyToOffsetFromAny
    \/ VCopyToResourceAny
    \/ VCopyToSubResourceAny
    \/ DropView

\* the Heap and the Resources on their own
InitHeap == Init /\ harness.name = "ring"

SpecHeap == InitHeap /\ [][NextHeap]_vars

\* the caller of the Resources starts with a buffer that
\* Resource::create_committed made for it
InitResource ==
    \E width \in Widths : \E mapped \in BOOLEAN :
        LET c == create_committed(1, width, 1, mapped, "ok") IN
        /\ InitWith(CHOOSE h \in Harnesses : h.name = "ring")
        /\ resources = <<c.resource>>
        /\ dev_log = <<c.log>>

SpecResource == InitResource /\ [][NextResource]_vars

\* The GPU executes what was submitted to it, and the OS wakes a thread whose
\* event was signaled.
Fairness ==
    /\ WF_vars(GpuStartAny)
    /\ WF_vars(GpuSignalAny)
    /\ WF_vars(GpuWaitAny)
    /\ WF_vars(Wake)

\* a workload that calls the CommandQueue and blocks in its waits, next to
\* one upload that is submitted or dropped
FairHarness ==
    [name |-> "xq", buffer_size |-> XqUnits * Unit, sizes |-> {512},
     allocs |-> MaxAllocsXq, qcalls |-> MaxQueueCalls, dep |-> TRUE, drop |-> TRUE,
     kinds |-> ProgramKinds]

InitFair == InitWith(FairHarness) /\ NoResources

SpecFair == InitFair /\ [][Next]_vars /\ Fairness

\* two UploadRingBuffers: the Uploads of the first can also be handed to the
\* submit of the second
RingSubmitAny == \E dependent \in BOOLEAN : RingSubmit(dependent)

NextTwoRings ==
    \/ AllocateAny
    \/ SubmitAny
    \/ RingSubmitAny
    \/ DropUpload
    \/ CleanUp
    \/ GpuStartAny
    \/ GpuSignalAny
    \/ GpuWaitAny

\* a few uploads of the first ring buffer, each submitted by either submit
\* or dropped, with a graphics queue that can be made to wait for them
TwoRingsHarness ==
    [name |-> "two", buffer_size |-> XqUnits * Unit, sizes |-> {512},
     allocs |-> MaxAllocsXq + 1, qcalls |-> 0, dep |-> TRUE, drop |-> TRUE,
     kinds |-> ProgramKinds]

InitTwoRings == InitWith(TwoRingsHarness) /\ NoResources

SpecTwoRings == InitTwoRings /\ [][NextTwoRings]_vars

(***************************************************************************)
(* A caller that creates two CommandQueues of chosen kinds and only calls  *)
(* execute_command_list on them, on a device that runs each list and its   *)
(* Signal before the next call                                             *)
(***************************************************************************)
\* each queue issues fewer than 2^FenceShift values
MaxFenceCalls == (2 ^ FenceShift) - 1

\* the kinds of the program (DIRECT and COPY), the two lowest and the two
\* highest kinds that fit the bits above the shift
KindPairs ==
    { <<D3D12_COMMAND_LIST_TYPE_DIRECT, D3D12_COMMAND_LIST_TYPE_COPY>>,
      <<0, 1>>,
      <<(2 ^ KindBits) - 2, (2 ^ KindBits) - 1>> }

FenceHarness(pair) ==
    [name |-> "fence", buffer_size |-> XqUnits * Unit, sizes |-> {512},
     allocs |-> 0, qcalls |-> 0, dep |-> FALSE, drop |-> FALSE,
     kinds |-> [q \in QueueIds |-> IF q = "graphics" THEN pair[1] ELSE pair[2]]]

\* execute_command_list(list) on queue q
QIssue(q) ==
    /\ cpu = Ready
    /\ fence_calls[q] < MaxFenceCalls
    /\ LET x == execute_command_list(queues[q], -1) IN
       /\ queues' = [queues EXCEPT ![q] = x.queue]
       /\ fence' = [fence EXCEPT ![q] = x.ret]
       /\ event' = QueueEv("execute_command_list", q, 0, TRUE, x.ret)
    /\ fence_calls' = [fence_calls EXCEPT ![q] = @ + 1]
    /\ UNCHANGED <<ringVars, upload, gpu, running, cpu, harness, allocs_left,
                   qcalls_left, histVars, descVars, heapVars, frameVars>>

NextFenceValues == QIssue("graphics") \/ QIssue("upload")

InitFenceValues == \E pair \in KindPairs : InitWith(FenceHarness(pair)) /\ NoResources

SpecFenceValues == InitFenceValues /\ [][NextFenceValues]_vars

(***************************************************************************)
(* Renderer::render, called once per frame by the event loop               *)
(***************************************************************************)
\* render: populate_command_list resets the command allocator of
\* frame_index and records the list, ExecuteCommandLists, Present, then
\* move_to_next_frame up to its WaitForSingleObject; next_index is what
\* GetCurrentBackBufferIndex returns after Present
Render(next_index) ==
    /\ render_wait = NotWaiting
    /\ frames_left > 0
    /\ frames_left' = frames_left - 1
    /\ LET current_fence_value == fence_values[frame_index] IN
       /\ command_queue' = command_queue \o <<ExecuteCmd(frame_index),
                                               FrameSignalCmd(current_fence_value)>>
       /\ signaled' = Append(signaled, current_fence_value)
       /\ last_use' = [last_use EXCEPT ![frame_index] = current_fence_value]
       /\ frame_index' = next_index
       /\ IF NeedsWait(frame_fence, fence_values[next_index])
          THEN /\ render_wait' = current_fence_value
               /\ fence_values' = fence_values
          ELSE /\ render_wait' = NotWaiting
               /\ fence_values' = [fence_values EXCEPT ![next_index] =
                                                         current_fence_value + 1]
       /\ r_event' = [op |-> "render", allocator |-> frame_index,
                      reused |-> last_use[frame_index] > 0,
                      in_flight |-> Len(command_queue)]
    /\ UNCHANGED <<frame_fence, outsideFrames>>

\* the fence reaches fence_values[frame_index]: WaitForSingleObject returns
\* and move_to_next_frame stores current_fence_value + 1
RenderWake ==
    /\ render_wait # NotWaiting
    /\ frame_fence >= fence_values[frame_index]
    /\ fence_values' = [fence_values EXCEPT ![frame_index] = render_wait + 1]
    /\ render_wait' = NotWaiting
    /\ r_event' = [op |-> "wake", allocator |-> frame_index, reused |-> FALSE,
                   in_flight |-> Len(command_queue)]
    /\ UNCHANGED <<frame_index, frame_fence, command_queue, frames_left, signaled,
                   last_use, outsideFrames>>

\* the device finishes the oldest command of the queue: a command list, or
\* a Signal, which sets the fence
FrameGpu ==
    /\ command_queue # << >>
    /\ command_queue' = Tail(command_queue)
    /\ frame_fence' = IF Head(command_queue).op = "Signal"
                      THEN Head(command_queue).value
                      ELSE frame_fence
    /\ UNCHANGED <<frame_index, fence_values, render_wait, frames_left, signaled,
                   last_use, r_event, outsideFrames>>

RenderAny == \E next_index \in FrameIndices : Render(next_index)

NextFrames == RenderAny \/ RenderWake \/ FrameGpu

InitFrames == Init /\ harness.name = "ring"

SpecFrames == InitFrames /\ [][NextFrames]_vars


(***************************************************************************)
(* Properties                                                              *)
(***************************************************************************)
\* unretired slots: claimed and not yet reset by clean_up_submissions
Live == {alloc_order[k] : k \in 1 .. Len(alloc_order)}

\* the aligned byte range of slot i is [RangeLo(i), RangeHi(i))
RangeLo(i) == submissions[i].offset
RangeHi(i) == submissions[i].offset + submissions[i].size + submissions[i].padding

Overlap(i, j) == RangeLo(i) < RangeHi(j) /\ RangeLo(j) < RangeHi(i)

\* the command list of slot i was handed to the transfer queue and the GPU
\* has not yet passed the Signal that follows it
InFlight(i) ==
    \/ running["upload"].op = "Exec" /\ running["upload"].list = i
    \/ \E k \in 1 .. Len(gpu["upload"]) :
          gpu["upload"][k].op = "Exec" /\ gpu["upload"][k].list = i

\* C1: under any sequence of allocate / submit / clean_up_submissions calls
\* (every Upload submitted), the aligned byte ranges of any two unretired
\* submission slots never overlap.
C1_NoOverlap ==
    all_submitted => \A i \in Live : \A j \in Live : i # j => ~Overlap(i, j)

C3_TailCheckNeverFails ==
    all_submitted => event.reason # "tail"

\* no fence value of an unretired slot is complete on the device
NoneComplete ==
    \A i \in Live : submissions[i].fence_value > fence["upload"]

\* C4: with all 16 slots submitted and none complete, allocate runs
\* clean_up_submissions, which retires nothing, and fails; never more than 16
\* slots are in use.
C4_Backpressure ==
    /\ [](submissions_used <= MAX_NUMBER_SUBMISSIONS)
    /\ [][(/\ event'.op = "allocate"
           /\ submissions_used = MAX_NUMBER_SUBMISSIONS
           /\ NoneComplete)
          => (/\ event'.cleaned
              /\ event'.retired = << >>
              /\ ~event'.ok
              /\ upload' = NoUpload
              /\ UNCHANGED ringVars)]_vars

C4_Witness ==
    /\ event.op = "allocate" /\ event.cleaned /\ event.reason = "slots"
    /\ submissions_used = MAX_NUMBER_SUBMISSIONS
    /\ NoneComplete
    /\ \A i \in Slots : phase[i] = "Submitted"

\* C5: an allocate that fails for lack of a slot or of contiguous space
\* leaves head, tail, submissions_start, submissions_used and every slot as
\* they were after the internal clean-up (or before the call when none ran),
\* and hands out no Upload.
C5_FailedAllocateKeepsState ==
    [][(event'.op = "allocate" /\ ~event'.ok
        /\ event'.reason \in {"slots", "size", "space"})
       => LET before == IF submissions_used >= MAX_NUMBER_SUBMISSIONS
                        THEN clean_up_submissions(Ring)
                        ELSE Ring
          IN /\ buffer_head' = before.buffer_head
             /\ buffer_tail' = before.buffer_tail
             /\ submissions_start' = before.submissions_start
             /\ submissions_used' = before.submissions_used
             /\ submissions' = before.submissions
             /\ upload' = NoUpload
             /\ event'.cleaned = (submissions_used >= MAX_NUMBER_SUBMISSIONS)
             /\ (~event'.cleaned => UNCHANGED ringVars)]_vars

C5_Witness ==
    /\ event.op = "allocate" /\ ~event.ok /\ event.reason = "space"
    /\ submissions_used > 0

\* C6: an allocate that failed for lack of room succeeds when retried after
\* the caller drained the GPU work (all outstanding fences complete, then
\* clean_up_submissions), provided its aligned size fits the buffer.
C6_RetryAfterDrainSucceeds ==
    (/\ all_submitted
     /\ event.op = "allocate"
     /\ event.retried
     /\ align_data(event.arg, D3D12_TEXTURE_DATA_PLACEMENT_ALIGNMENT) <= buffer_size)
    => event.ok

\* C7: a command list executed on the dependent queue after
\* submit(upload, Some(q)) obtained transfer fence value v starts on the GPU
\* only once the transfer fence has reached v; submit itself never blocks
\* the calling thread.
C7_DependentQueueOrdered ==
    /\ running["graphics"].op = "Exec" => fence["upload"] >= running["graphics"].need
    /\ event.op = "submit" => cpu = Ready

C7_Witness ==
    /\ running["graphics"].op = "Exec"
    /\ running["graphics"].need > FenceBase(D3D12_COMMAND_LIST_TYPE_COPY)

IsPrefix(s, t) == Len(s) <= Len(t) /\ \A k \in 1 .. Len(s) : s[k] = t[k]

\* C8: clean_up_submissions retires the slots in allocation order starting at
\* submissions_start and stops at the first slot whose fence value is not
\* complete: the slots a call retires are the oldest unretired ones.
C8_FifoRetirement ==
    /\ [](alloc_order = [k \in 1 .. submissions_used |->
                           (submissions_start + k - 1) % MAX_NUMBER_SUBMISSIONS])
    /\ [][event'.op \in {"allocate", "clean_up_submissions"}
          => /\ IsPrefix(event'.retired, alloc_order)
             /\ (event'.cleaned /\ Len(event'.retired) < Len(alloc_order)
                 => LET i == alloc_order[Len(event'.retired) + 1]
                    IN \/ submissions[i].fence_value > fence["upload"]
                       \/ event'.reason = "tail")]_vars

C8_Witness ==
    /\ event.op = "clean_up_submissions"
    /\ Len(event.retired) >= 2
    /\ submissions_used >= 1

\* C9: a slot only moves Free -> Claimed -> Submitted -> (Retired) -> Free:
\* no slot leaves Claimed except by being submitted.
C9_SlotLifecycle ==
    [][\A i \in Slots :
         /\ phase[i] = "Free" => phase'[i] \in {"Free", "Claimed"}
         /\ phase[i] = "Claimed" => phase'[i] \in {"Claimed", "Submitted"}
         /\ (phase[i] = "Submitted" /\ phase'[i] # "Submitted")
              => submissions[i].fence_value <= fence["upload"]]_vars

Executes(ev) == ev.op \in {"execute_command_list", "submit"}
ExecutingQueue(ev) == IF ev.op = "submit" THEN "upload" ELSE ev.q

\* C10: execute_command_list returns the queue's next fence value, which is
\* the value signaled after the submitted list, and advances the counter by
\* exactly one; the counter starts at base + 1 and no other operation
\* changes it.
C10_FenceValuesConsecutive ==
    /\ \A q \in QueueIds : queues[q].next_fence_value = FenceBase(QueueKind(q)) + 1
    /\ [][\A q \in QueueIds :
            IF Executes(event') /\ ExecutingQueue(event') = q
            THEN /\ event'.ret = queues[q].next_fence_value
                 /\ queues'[q].next_fence_value = event'.ret + 1
                 /\ \E k \in 1 .. Len(gpu'[q]) - 1 :
                       /\ gpu'[q][k].op = "Exec"
                       /\ gpu'[q][k + 1] = SignalCmd(event'.ret)
                       /\ \A m \in (k + 2) .. Len(gpu'[q]) : gpu'[q][m].op = "Wait"
            ELSE queues'[q].next_fence_value = queues[q].next_fence_value]_vars

C10_Witness ==
    /\ event.op = "execute_command_list"
    /\ event.ret = FenceBase(QueueKind(event.q)) + 2
    /\ queues[event.q].next_fence_value = event.ret + 1

(***************************************************************************)
(* CommandQueue: the cached fence value and the blocking waits             *)
(***************************************************************************)
\* the values a caller can ask a queue about: its base up to the next value
AskedValues(q) == FenceBase(QueueKind(q)) .. queues[q].next_fence_value

\* the Signal of value v, or of a smaller value, is still ahead of the GPU
SignalPending(cmds, v) ==
    \E k \in 1 .. Len(cmds) : cmds[k].op = "Signal" /\ cmds[k].value <= v

\* C11: in every reachable state a queue's cached last-known-completed value
\* is at most the value its GPU fence has reached, and is_fence_complete(v)
\* answers true only when the fence has reached v, that is after the GPU
\* finished the submission that signals v.
C11_CacheNeverAheadOfFence ==
    /\ \A q \in QueueIds : queues[q].last_fence_value <= fence[q]
    /\ (event.op = "is_fence_complete" /\ event.ok)
          => /\ event.arg <= fence[event.q]
             /\ ~SignalPending(gpu[event.q], event.arg)

C11_Witness ==
    /\ event.op = "is_fence_complete"
    /\ event.ok
    /\ event.arg = FenceBase(QueueKind(event.q)) + 1
    /\ queues[event.q].last_fence_value = fence[event.q]

\* C12: the cached value of a queue never decreases in any step, the
\* overwrite at the end of wait_for_fence_blocking included, and a value for
\* which is_fence_complete answers true keeps that answer in every later
\* state, together with every smaller value.
C12_CacheMonotonic ==
    [][\A q \in QueueIds :
          /\ queues'[q].last_fence_value >= queues[q].last_fence_value
          /\ \A v \in AskedValues(q) :
                is_fence_complete(queues[q].last_fence_value, fence[q], v)
                  => \A w \in FenceBase(QueueKind(q)) .. v :
                        is_fence_complete(queues'[q].last_fence_value, fence'[q], w)]_vars

\* the wait wrote the awaited value while the fence was already beyond it
C12_Witness ==
    /\ event.op = "woken"
    /\ queues[event.q].last_fence_value = event.arg
    /\ fence[event.q] > event.arg

\* a step in which the caller made a CommandQueue call
QueueCalled == qcalls_left' # qcalls_left

\* a step in which the call op returned, at once or after its wait
Returned(op) ==
    \/ QueueCalled /\ event'.op = op /\ event'.ok
    \/ cpu.op = op /\ cpu' = Ready

\* C13: wait_for_idle waits for next_fence_value - 1; when it returns every
\* fence value issued on the queue so far is complete; it returns at once
\* when nothing was ever submitted; and, the GPU executing all submitted
\* work, a wait_for_idle that blocked eventually returns.
C13_WaitForIdle ==
    /\ [][LET q == event'.q IN
          /\ (QueueCalled /\ event'.op = "wait_for_idle")
                => /\ event'.arg = queues[q].next_fence_value - 1
                   /\ queues[q].next_fence_value = FenceBase(QueueKind(q)) + 1
                        => event'.ok /\ cpu' = Ready
          /\ Returned("wait_for_idle")
                => \A v \in FenceBase(QueueKind(q)) .. (queues'[q].next_fence_value - 1) :
                      /\ v <= fence'[q]
                      /\ ~SignalPending(gpu'[q], v)
                      /\ is_fence_complete(queues'[q].last_fence_value, fence'[q], v)]_vars
    /\ (cpu.op = "wait_for_idle") ~> (cpu = Ready)

\* wait_for_idle blocked and returned after two submissions
C13_Witness ==
    /\ event.op = "woken"
    /\ event.reason = "wait_for_idle"
    /\ event.arg = FenceBase(QueueKind(event.q)) + 2
    /\ queues[event.q].next_fence_value = event.arg + 1

\* C14: wait_for_fence_blocking(v) returns at once, without arming the event,
\* when v is already complete; otherwise it blocks and returns only after
\* the GPU fence reached at least v; after it returned is_fence_complete(v)
\* is true.
C14_WaitForFenceBlocking ==
    [][LET q == event'.q
           v == event'.arg
       IN
       /\ (QueueCalled /\ event'.op = "wait_for_fence_blocking")
             => IF is_fence_complete(queues[q].last_fence_value, fence[q], v)
                THEN event'.ok /\ cpu' = Ready
                ELSE ~event'.ok /\ cpu' = [q |-> q, value |-> v, op |-> event'.op]
       /\ (cpu.op = "wait_for_fence_blocking" /\ cpu' = Ready)
             => fence[cpu.q] >= cpu.value /\ v = cpu.value
       /\ Returned("wait_for_fence_blocking")
             => is_fence_complete(queues'[q].last_fence_value, fence'[q], v)]_vars

\* wait_for_fence_blocking blocked on a value and returned
C14_Witness ==
    /\ event.op = "woken"
    /\ event.reason = "wait_for_fence_blocking"
    /\ event.arg > FenceBase(QueueKind(event.q))
    /\ fence[event.q] >= event.arg

(***************************************************************************)
(* DescriptorManager and DescriptorHeap                                    *)
(***************************************************************************)
\* a step in which the caller called DescriptorManager::allocate
AllocateCalled == dcalls_left' # dcalls_left /\ d_event'.op = "allocate"

\* C15: for any sequence of allocate and free calls no two live handles of
\* one kind share an index (an index held by a live handle is not returned
\* by allocate again), and every issued index is below the heap capacity.
C15_LiveIndexNotReissued ==
    /\ \A k \in DescriptorKinds : \A i \in Indices(k) : held[k][i] <= 1
    /\ (d_event.op = "allocate" /\ d_event.ok)
          => d_event.index < descriptor_heaps[d_event.tag].num_descriptors

\* C16: when the kind's free list is non-empty, allocate returns the most
\* recently freed index and takes nothing from the heap; an index is taken
\* from the heap only when the free list is empty. Allocating 4 resource
\* descriptors, freeing the 3rd and allocating again returns the 3rd's index.
C16_ReuseMostRecentlyFreed ==
    [][AllocateCalled /\ d_event'.tag # Unset =>
         LET k == d_event'.tag IN
         /\ (d_event.op \in {"free", "free_again"} /\ d_event.tag = k)
               => d_event'.ok /\ d_event'.index = d_event.index
         /\ IF free_lists[k] # << >>
            THEN /\ d_event'.ok
                 /\ ~d_event'.bumped
                 /\ d_event'.index = free_lists[k][Len(free_lists[k])]
                 /\ free_lists'[k] = SubSeq(free_lists[k], 1, Len(free_lists[k]) - 1)
                 /\ descriptor_heaps'[k] = descriptor_heaps[k]
            ELSE d_event'.ok
                   => /\ d_event'.bumped
                      /\ descriptor_heaps'[k].num_allocated
                            = descriptor_heaps[k].num_allocated + 1]_vars

\* four resource descriptors were allocated, the 3rd was freed, and the next
\* allocate returned its index
C16_Witness ==
    /\ d_event = DescEv("allocate", "Resource", 2, TRUE, FALSE, -1)
    /\ descriptor_heaps["Resource"].num_allocated = 4
    /\ \A i \in 0 .. 3 : held["Resource"][i] = 1
    /\ stale["Resource"] = {2}
    /\ ~double_freed

\* C17: allocate(kind) fails exactly when kind is Unset, or the kind's free
\* list is empty and its heap is at capacity; a full heap with a non-empty
\* free list still allocates; a failed allocate changes no free list and no
\* heap's allocated count.
C17_AllocateFailsExactly ==
    [][AllocateCalled =>
         LET k == d_event'.tag IN
         /\ ~d_event'.ok <=>
               \/ k = Unset
               \/ /\ free_lists[k] = << >>
                  /\ descriptor_heaps[k].num_allocated = descriptor_heaps[k].num_descriptors
         /\ ~d_event'.ok => /\ free_lists' = free_lists
                            /\ descriptor_heaps' = descriptor_heaps]_vars

\* allocate from the free list of a full heap succeeded
C17_Witness ==
    /\ d_event.op = "allocate"
    /\ d_event.ok
    /\ ~d_event.bumped
    /\ descriptor_heaps[d_event.tag].num_allocated
         = descriptor_heaps[d_event.tag].num_descriptors

\* C18: allocate_handle returns 0, 1, 2, ... in order, without reuse or
\* compaction; num_allocated <= capacity in every state; it fails, leaving
\* num_allocated unchanged, exactly when num_allocated equals the capacity.
\* The manager calls it when the kind's free list is empty.
C18_BumpAllocation ==
    /\ \A k \in DescriptorKinds : descriptor_heaps[k].num_allocated = 0
    /\ [][\A k \in DescriptorKinds :
            LET heap == descriptor_heaps[k] IN
            /\ descriptor_heaps'[k].num_allocated <= heap.num_descriptors
            /\ IF AllocateCalled /\ d_event'.tag = k /\ free_lists[k] = << >>
               THEN IF heap.num_allocated = heap.num_descriptors
                    THEN ~d_event'.ok /\ descriptor_heaps'[k] = heap
                    ELSE /\ d_event'.ok /\ d_event'.bumped
                         /\ d_event'.index = heap.num_allocated
                         /\ d_event'.index = Len(issued[k])
                         /\ descriptor_heaps'[k].num_allocated = heap.num_allocated + 1
               ELSE descriptor_heaps'[k] = heap]_vars

\* the allocate_handle that fails on the full resource heap
C18_Witness ==
    /\ d_event = DescEv("allocate", "Resource", 0, FALSE, FALSE, -1)
    /\ descriptor_heaps["Resource"].num_allocated = HeapCapacity("Resource")
    /\ free_lists["Resource"] = << >>

HeapLookups == {"heap.get_cpu_handle", "heap.get_gpu_handle"}

\* C19: get_cpu_handle(index) and get_gpu_handle(index) of a heap succeed
\* exactly when index < num_allocated and return heap start + index x
\* descriptor size; distinct valid indices have distinct addresses, and the
\* CPU address of an index is the one allocate_handle returned for it.
C19_HandleAddresses ==
    /\ d_event.op \in HeapLookups
          => LET heap == descriptor_heaps[d_event.tag]
                 start == IF d_event.op = "heap.get_cpu_handle"
                          THEN heap.heap_start ELSE heap.gpu_start
             IN
             /\ d_event.ok <=> d_event.index < heap.num_allocated
             /\ d_event.ok => d_event.ptr = start + d_event.index * heap.descriptor_size
             /\ (d_event.ok /\ d_event.op = "heap.get_cpu_handle")
                   => d_event.ptr = issued[d_event.tag][d_event.index + 1]
    /\ \A k \in DescriptorKinds :
          LET heap == descriptor_heaps[k] IN
          \A i, j \in 0 .. (heap.num_allocated - 1) :
              i # j => /\ DescriptorHeap_get_cpu_handle(heap, i).ptr
                            # DescriptorHeap_get_cpu_handle(heap, j).ptr
                       /\ DescriptorHeap_get_gpu_handle(heap, i).ptr
                            # DescriptorHeap_get_gpu_handle(heap, j).ptr

\* the CPU address of the second of two allocated resource descriptors
C19_Witness ==
    /\ d_event.op = "heap.get_cpu_handle"
    /\ d_event.ok
    /\ d_event.index = 1
    /\ descriptor_heaps[d_event.tag].num_allocated >= 2

\* C20: as long as no handle was freed twice, the number of slots taken
\* from a kind's heap equals the most handles of that kind ever live at the
\* same time.
C20_BumpedEqualsHighWater ==
    ~double_freed
      => \A k \in DescriptorKinds : descriptor_heaps[k].num_allocated = high_water[k]

\* three allocations of resource descriptors took two slots
C20_Witness ==
    /\ ~double_freed
    /\ d_event = DescEv("allocate", "Resource", 1, TRUE, FALSE, -1)
    /\ descriptor_heaps["Resource"].num_allocated = 2
    /\ high_water["Resource"] = 2
    /\ free_lists["Resource"] = << >>

ManagerLookups == {"get_cpu_handle", "get_gpu_handle"}

\* C21: after free(h), and until allocate hands h's index out again,
\* get_cpu_handle(h) and get_gpu_handle(h) of the manager fail instead of
\* returning an address.
C21_StaleHandleRejected ==
    (/\ d_event.op \in ManagerLookups
     /\ d_event.tag # Unset
     /\ d_event.index \in stale[d_event.tag]
     /\ held[d_event.tag][d_event.index] = 0)
      => ~d_event.ok

(***************************************************************************)
(* UploadRingBuffer: the offset allocate chooses                           *)
(***************************************************************************)
\* the aligned range [lo, hi) meets the range of an unretired slot other
\* than i, in the state after the step
MeetsUnretired(i, lo, hi) ==
    \E k \in 1 .. Len(alloc_order') :
        LET j == alloc_order'[k] IN
        /\ j # i
        /\ submissions'[j].offset < hi
        /\ lo < submissions'[j].offset + submissions'[j].size + submissions'[j].padding

\* C30: a successful allocate places the range at 0 when head + aligned
\* size exceeds the capacity and at head otherwise, and sets head to offset +
\* aligned size; the wrap to 0 is taken only when the aligned size fits
\* before tail and those bytes hold no unretired data (every Upload
\* submitted).
C30_OffsetChoice ==
    [][(allocs_left' # allocs_left /\ event'.op = "allocate" /\ event'.ok /\ all_submitted)
         => LET i == event'.slot
                size == align_data(event'.arg, D3D12_TEXTURE_DATA_PLACEMENT_ALIGNMENT)
                wrap == buffer_head + size > buffer_size
            IN
            /\ submissions'[i].offset = IF wrap THEN 0 ELSE buffer_head
            /\ buffer_head' = submissions'[i].offset + size
            /\ wrap => /\ size <= buffer_tail'
                        /\ ~MeetsUnretired(i, 0, size)]_vars

(***************************************************************************)
(* Heap::create_resource                                                   *)
(***************************************************************************)
\* a step in which the caller called Heap::create_resource
CreateResourceCalled == hcalls_left' # hcalls_left /\ h_event'.op = "create_resource"

\* alignment padding + device-required size of the call recorded in ev, for
\* a heap whose current offset is curr_offset
Consumed(ev, curr_offset) ==
    (align_data(curr_offset, ev.info.Alignment) - curr_offset) + ev.info.SizeInBytes

\* C22: with no device call failing, create_resource fails if and only if
\* alignment padding + device-required size exceeds the remaining capacity
\* (heap size - current offset), so the failing call is the first whose
\* cumulative aligned size exceeds the heap size.
C22_FailsExactlyOnOverflow ==
    [][(CreateResourceCalled /\ h_event'.outcome = "ok")
         => (~h_event'.ok <=>
               Consumed(h_event', mem_heap.curr_offset)
                 > mem_heap.size - mem_heap.curr_offset)]_vars

\* the placements whose resource create_resource returned to its caller (a
\* placement whose SetName fails is released inside the call)
PlacedReturned ==
    {i \in 1 .. Len(placed) :
        \E r \in 1 .. Len(resources) : resources[r].device_resource = placed[i].id}

\* C23: every resource placed by create_resource sits at a multiple of the
\* alignment the device reported for it, ends within the heap, and shares no
\* byte with another resource placed in the heap.
C23_PlacedAlignedDisjoint ==
    \A i \in PlacedReturned :
        /\ placed[i].offset % placed[i].alignment = 0
        /\ placed[i].offset + placed[i].size <= mem_heap.size
        /\ \A j \in PlacedReturned :
              i # j => \/ placed[i].offset + placed[i].size <= placed[j].offset
                       \/ placed[j].offset + placed[j].size <= placed[i].offset

\* a second resource was placed after alignment padding, and a later call
\* failed for lack of space
C23_Witness ==
    /\ Len(placed) = 2
    /\ PlacedReturned = {1, 2}
    /\ placed[2].offset > placed[1].offset + placed[1].size
    /\ h_event.op = "create_resource"
    /\ h_event.reason = "space"

\* C24: the heap's current offset never decreases and changes only on a
\* successful create_resource, by alignment padding + required size; a
\* create_resource that fails for lack of space leaves the offset and the
\* placed resources untouched.
C24_OffsetMonotonic ==
    [][/\ mem_heap'.curr_offset >= mem_heap.curr_offset
       /\ mem_heap'.curr_offset # mem_heap.curr_offset
             => /\ CreateResourceCalled
                /\ h_event'.ok
                /\ mem_heap'.curr_offset
                     = mem_heap.curr_offset + Consumed(h_event', mem_heap.curr_offset)
       /\ (CreateResourceCalled /\ h_event'.reason = "space")
             => /\ mem_heap'.curr_offset = mem_heap.curr_offset
                /\ placed' = placed
                /\ resources' = resources
                /\ dev_log' = dev_log]_vars

(***************************************************************************)
(* Resource and SubResource                                                *)
(***************************************************************************)
\* C25: Resource::copy_from(data) fails and writes no byte if the resource is
\* unmapped or data is larger than the resource; otherwise it succeeds and
\* writes exactly data's bytes from the start of the mapped region.
C25_CopyFromContract ==
    h_event.op = "copy_from" =>
        LET res == resources[h_event.r] IN
        IF res.mapped_data = NullPtr \/ h_event.n > res.size
        THEN ~h_event.ok /\ h_event.write.len = 0
        ELSE /\ h_event.ok
             /\ h_event.write = [lo |-> MapAddress(res.device_resource),
                                 len |-> h_event.n]

\* copy_from refused data one byte larger than a mapped resource
C25_Witness ==
    /\ h_event.op = "copy_from"
    /\ resources[h_event.r].mapped_data # NullPtr
    /\ h_event.n = resources[h_event.r].size + 1
    /\ ~h_event.ok

\* a mapped resource accepted data of exactly its size
C25_WitnessFull ==
    /\ h_event.op = "copy_from"
    /\ h_event.n = resources[h_event.r].size
    /\ h_event.ok

\* C26: SubResource::copy_from and copy_to_offset_from(off, data) write only
\* inside [offset, offset + size) of the parent's mapped region, and fail
\* without writing when off + data's size > size or the parent is unmapped.
C26_SubCopyWithinRange ==
    h_event.op \in {"sub.copy_from", "sub.copy_to_offset_from"} =>
        LET sub == views[h_event.v]
            parent == resources[sub.resource]
            base == MapAddress(parent.device_resource) + sub.offset
        IN
        /\ h_event.ok
             => /\ base <= h_event.write.lo
                /\ h_event.write.lo + h_event.write.len <= base + sub.size
        /\ (h_event.off + h_event.n > sub.size \/ parent.mapped_data = NullPtr)
             => ~h_event.ok /\ h_event.write.len = 0

\* a step in which the caller called Resource::create_sub_resource
CreateSubResourceCalled ==
    hcalls_left' # hcalls_left /\ h_event'.op = "create_sub_resource"

\* C27: Resource::create_sub_resource(size, offset) fails if and only if
\* offset + size exceeds the resource's size; every SubResource lies within
\* its parent, and the call changes nothing in the parent.
C27_SubResourceWithinParent ==
    [][CreateSubResourceCalled
         => /\ ~h_event'.ok
                 <=> h_event'.off + h_event'.size > resources[h_event'.r].size
            /\ h_event'.ok
                 => views' = Append(views, [resource |-> h_event'.r,
                                            size |-> h_event'.size,
                                            offset |-> h_event'.off])
            /\ ~h_event'.ok => views' = views
            /\ \A v \in 1 .. Len(views') :
                  views'[v].offset + views'[v].size
                    <= resources'[views'[v].resource].size
            /\ resources' = resources
            /\ dev_log' = dev_log]_vars

\* a SubResource that ends exactly at the end of its parent, past offset 0
C27_Witness ==
    /\ h_event.op = "create_sub_resource"
    /\ h_event.ok
    /\ h_event.off > 0
    /\ h_event.off + h_event.size = resources[h_event.r].size

\* a request one byte past the end of the parent was refused
C27_WitnessRefused ==
    /\ h_event.op = "create_sub_resource"
    /\ ~h_event.ok
    /\ h_event.off + h_event.size = resources[h_event.r].size + 1

\* a step in which the caller called SubResource::copy_to_resource or
\* copy_to_sub_resource
GpuCopyCalled ==
    /\ hcalls_left' # hcalls_left
    /\ h_event'.op \in {"sub.copy_to_resource", "sub.copy_to_sub_resource"}

\* the destination of the GPU copy recorded in ev: a whole resource or the
\* range of a SubResource
Destination(ev) ==
    IF ev.op = "sub.copy_to_resource"
    THEN [dst |-> resources[ev.r].device_resource, lo |-> 0,
          size |-> resources[ev.r].size]
    ELSE [dst |-> Parent(ev.w).device_resource, lo |-> views[ev.w].offset,
          size |-> views[ev.w].size]

\* C28: SubResource::copy_to_resource and copy_to_sub_resource fail and
\* record no copy when the destination is smaller than the source
\* SubResource; a successful call records one copy that reads exactly the
\* source range and writes inside the destination.
C28_GpuCopyContract ==
    [][GpuCopyCalled
         => LET ev == h_event'
                sub == views[ev.v]
                d == Destination(ev)
            IN
            /\ d.size < sub.size => ~ev.ok
            /\ ~ev.ok => command_list' = command_list
            /\ ev.ok
                 => /\ command_list' = Append(command_list, ev.copy)
                    /\ ev.copy.src = Parent(ev.v).device_resource
                    /\ ev.copy.src_offset = sub.offset
                    /\ ev.copy.num_bytes = sub.size
                    /\ ev.copy.dst = d.dst
                    /\ d.lo <= ev.copy.dst_offset
                    /\ ev.copy.dst_offset + ev.copy.num_bytes <= d.lo + d.size]_vars

\* copy_to_resource refused a destination smaller than the source
C28_Witness ==
    /\ h_event.op = "sub.copy_to_resource"
    /\ ~h_event.ok
    /\ resources[h_event.r].size < views[h_event.v].size
    /\ command_list = << >>

\* copy_to_sub_resource recorded a copy into a SubResource past offset 0
C28_WitnessRecorded ==
    /\ h_event.op = "sub.copy_to_sub_resource"
    /\ h_event.ok
    /\ h_event.copy.dst_offset > 0
    /\ Len(command_list) = 1

\* the positions of call in the device calls made on one ID3D12Resource
Positions(log, call) == {k \in 1 .. Len(log) : log[k] = call}

\* C29: a mapping is made at creation if and only if it was requested; it is
\* unmapped exactly once, at destruction, right before the device resource
\* is released; a resource created unmapped is never unmapped; nothing
\* happens to a device resource after its release.
C29_Lifecycle ==
    /\ \A i \in 1 .. Len(dev_log) :
          LET log == dev_log[i] IN
          /\ log[1] = "Create"
          /\ Positions(log, "Create") = {1}
          /\ Positions(log, "Map") \subseteq {2}
          /\ Positions(log, "Release") \subseteq {Len(log)}
          /\ Positions(log, "Unmap") \subseteq {Len(log) - 1}
          /\ Positions(log, "Unmap") # {} => Positions(log, "Map") # {}
          /\ (Positions(log, "Release") # {} /\ Positions(log, "Map") # {})
               => Positions(log, "Unmap") # {}
    /\ \A r \in 1 .. Len(resources) :
          LET log == dev_log[resources[r].device_resource] IN
          /\ resources[r].alive <=> Positions(log, "Release") = {}
          /\ resources[r].mapped_data # NullPtr <=> Positions(log, "Map") # {}
    /\ (h_event.op \in {"create_resource", "create_committed"} /\ h_event.ok)
         => (h_event.mapped <=> resources[h_event.r].mapped_data # NullPtr)

\* a placed resource that was mapped at creation has been dropped
C29_Witness ==
    /\ h_event.op = "drop"
    /\ resources[h_event.r].mapped_data # NullPtr
    /\ dev_log[resources[h_event.r].device_resource]
         = <<"Create", "Map", "Unmap", "Release">>
    /\ \E i \in 1 .. Len(placed) :
          placed[i].id = resources[h_event.r].device_resource

(***************************************************************************)
(* CommandQueue::is_fence_complete                                         *)
(***************************************************************************)
\* a step in which the caller called is_fence_complete on its queue
IsFenceCompleteCalled ==
    qcalls_left' # qcalls_left /\ event'.op = "is_fence_complete"

\* C31: is_fence_complete(v) makes no fence query when v is at most the
\* cached last_fence_value, and then leaves the cache alone and returns
\* true; otherwise it makes exactly one query, after which the cache is the
\* maximum of its previous value and the fence's completed value, and it
\* returns whether v is at most the new cache.
C31_FenceQueryCaching ==
    [][IsFenceCompleteCalled
         => LET q == event'.q
                v == event'.arg
                cached == queues[q].last_fence_value
            IN
            IF v <= cached
            THEN /\ event'.queries = 0
                 /\ queues'[q].last_fence_value = cached
                 /\ event'.ok
            ELSE /\ event'.queries = 1
                 /\ queues'[q].last_fence_value = Max(cached, fence[q])
                 /\ event'.ok <=> v <= Max(cached, fence[q])]_vars

\* is_fence_complete answered from the cache while the fence was ahead of it
C31_Witness ==
    /\ event.op = "is_fence_complete"
    /\ event.queries = 0
    /\ event.ok
    /\ fence[event.q] > queues[event.q].last_fence_value

\* is_fence_complete asked the fence and moved the cache forward
C31_WitnessQueried ==
    /\ event.op = "is_fence_complete"
    /\ event.queries = 1
    /\ event.ok
    /\ queues[event.q].last_fence_value = fence[event.q]
    /\ fence[event.q] > FenceBase(QueueKind(event.q))

(***************************************************************************)
(* Upload::submit and UploadRingBuffer::submit                             *)
(***************************************************************************)
\* a step in which the live Upload was submitted, by either submit
Submitted == upload # NoUpload /\ event'.op \in {"submit", "ring.submit"}

\* C32: when a submit hands a slot's command list to ExecuteCommandLists, the
\* list has been closed exactly once since allocate reset it.
C32_ClosedBeforeExecute ==
    [][Submitted => closes' = 1]_vars

\* a step of Upload::submit
UploadSubmitted == upload # NoUpload /\ event'.op = "submit"

\* the last command of a queue's command sequence
Last(cmds) == cmds[Len(cmds)]

C33_WitnessDependent ==
    /\ event.op = "submit"
    /\ event.q = "graphics"
    /\ gpu["graphics"] # << >>
    /\ Last(gpu["graphics"]) = WaitCmd("upload", submissions[event.slot].fence_value)

(***************************************************************************)
(* UploadRingBuffer: accounting, cursors and the slot window               *)
(***************************************************************************)
\* the smallest multiple of alignment that is at least n
AlignUp(n, alignment) == ((n + alignment - 1) \div alignment) * alignment

\* a step in which allocate claimed a slot and returned its Upload
AllocateClaimed == event'.op = "allocate" /\ event'.ok /\ upload = NoUpload

\* C34: every claimed slot records the caller's raw size, the padding that
\* aligns it up to the placement alignment (0 <= padding < alignment), an
\* offset that is a multiple of the alignment, and a range that ends within
\* the buffer; the SubResource of the Upload covers [offset, offset + raw size).
C34_AllocationAccounting ==
    /\ [](\A k \in 1 .. Len(alloc_order) :
            LET sub == submissions[alloc_order[k]] IN
            /\ sub.padding
                 = AlignUp(sub.size, D3D12_TEXTURE_DATA_PLACEMENT_ALIGNMENT) - sub.size
            /\ 0 <= sub.padding
            /\ sub.padding < D3D12_TEXTURE_DATA_PLACEMENT_ALIGNMENT
            /\ sub.offset % D3D12_TEXTURE_DATA_PLACEMENT_ALIGNMENT = 0
            /\ sub.offset + sub.size + sub.padding <= buffer_size)
    /\ [][AllocateClaimed
            => LET sub == submissions'[event'.slot] IN
               /\ sub.size = event'.arg
               /\ event'.sub.offset = sub.offset
               /\ event'.sub.size = event'.arg]_vars

\* an upload of 300 bytes was placed behind another one, with 212 bytes of
\* padding
C34_Witness ==
    /\ event.op = "allocate"
    /\ event.ok
    /\ event.arg = 300
    /\ submissions[event.slot].offset > 0
    /\ submissions[event.slot].padding = 212
    /\ event.sub.size = 300

\* C35: the cursors are offsets modulo the capacity: 0 <= buffer_head <
\* buffer_size and 0 <= buffer_tail < buffer_size in every reachable state.
C35_CursorsWithinCapacity ==
    /\ 0 <= buffer_head /\ buffer_head < buffer_size
    /\ 0 <= buffer_tail /\ buffer_tail < buffer_size

(***************************************************************************)
(* CommandQueue::new: the fence base of a queue kind                       *)
(***************************************************************************)
\* the queues the fence-value caller issues on
Issuers == {"graphics", "upload"}

\* the i-th value a queue of the given kind should issue, as an unbounded
\* integer
Nth(kind, i) == kind * (2 ^ FenceShift) + i

\* C36: a queue of kind k starts with completed value k * 2^FenceShift and
\* issues k * 2^FenceShift + 1, + 2, ...; queues of different kinds never
\* issue the same value while each issues fewer than 2^FenceShift values;
\* the base does not overflow the word for kinds below 2^KindBits.
C36_FenceValueRanges ==
    /\ \A k \in 0 .. ((2 ^ KindBits) - 1) : FenceBase(k) = Nth(k, 0)
    /\ [](\A q \in Issuers :
            /\ fence_calls[q] = 0
                 => /\ queues[q].last_fence_value = Nth(harness.kinds[q], 0)
                    /\ fence[q] = Nth(harness.kinds[q], 0)
            /\ \A p \in Issuers :
                  harness.kinds[p] # harness.kinds[q]
                    => \A i \in {1, fence_calls[p]}, j \in {1, fence_calls[q]} :
                          (fence_calls[p] > 0 /\ fence_calls[q] > 0)
                            => /\ Nth(harness.kinds[p], i) # Nth(harness.kinds[q], j)
                               /\ (Nth(harness.kinds[p], 1) < Nth(harness.kinds[q], 1)
                                    => Nth(harness.kinds[p], fence_calls[p])
                                         < Nth(harness.kinds[q], 1)))
    /\ [][\A q \in Issuers :
            fence_calls'[q] # fence_calls[q]
              => /\ fence_calls'[q] = fence_calls[q] + 1
                 /\ event'.ret = Nth(harness.kinds[q], fence_calls'[q])]_vars

\* a queue of the highest kind has issued its last value below 2^FenceShift
\* issues, the largest value of the word, next to a queue of the kind below
C36_Witness ==
    /\ harness.kinds["upload"] = (2 ^ KindBits) - 1
    /\ fence_calls["upload"] = MaxFenceCalls
    /\ event.q = "upload"
    /\ event.ret = Word - 1
    /\ fence_calls["graphics"] = MaxFenceCalls

(***************************************************************************)
(* DescriptorManager::free: what it leaves alone                           *)
(***************************************************************************)
FreeCalled ==
    /\ dcalls_left' # dcalls_left
    /\ d_event'.op \in {"free", "free_again"}

\* C37: free(handle) only pushes the handle's index onto the free list of
\* the handle's kind: no heap's allocated count, no other kind's free list
\* and no other live handle changes, and free of an Unset handle changes
\* nothing.
C37_FreeFrame ==
    [][FreeCalled =>
        /\ \A k \in DescriptorKinds :
              /\ descriptor_heaps'[k] = descriptor_heaps[k]
              /\ free_lists'[k] =
                    IF k = d_event'.tag
                    THEN Append(free_lists[k], d_event'.index)
                    ELSE free_lists[k]
              /\ \A i \in Indices(k) :
                    (k # d_event'.tag \/ i # d_event'.index)
                      => held'[k][i] = held[k][i]
        /\ d_event'.tag = Unset => (free_lists' = free_lists /\ held' = held)]_vars

\* a Resource handle was released while the depth-stencil kind has a released
\* index on its free list and a render-target handle is live
C37_Witness ==
    /\ d_event.op = "free"
    /\ d_event.tag = "Resource"
    /\ free_lists["Resource"] # << >>
    /\ free_lists["DepthStencilView"] # << >>
    /\ held["RenderTargetView"][0] > 0

\* the default handle was released while a free list holds an index
C37_WitnessUnset ==
    /\ d_event.op = "free"
    /\ d_event.tag = Unset
    /\ free_lists["Resource"] # << >>

(***************************************************************************)
(* The window of claimed slots                                             *)
(***************************************************************************)
\* the slots submissions_start .. submissions_start + submissions_used - 1,
\* around the end of the pool, in order
Window(start, used) ==
    [k \in 1 .. used |-> (start + k - 1) % MAX_NUMBER_SUBMISSIONS]

InWindow(i, start, used) ==
    ((i + MAX_NUMBER_SUBMISSIONS) - start) % MAX_NUMBER_SUBMISSIONS < used

\* C38: 0 <= submissions_used <= 16 and 0 <= submissions_start < 16; the
\* unretired slots are exactly the circular window that starts at
\* submissions_start and has submissions_used slots; allocate claims the
\* slot just past the window; every slot outside the window is in its reset
\* state.
C38_SlotWindow ==
    /\ [](/\ submissions_used \in 0 .. MAX_NUMBER_SUBMISSIONS
          /\ submissions_start \in 0 .. (MAX_NUMBER_SUBMISSIONS - 1)
          /\ alloc_order = Window(submissions_start, submissions_used)
          /\ \A i \in Slots :
                IF InWindow(i, submissions_start, submissions_used)
                THEN phase[i] # "Free"
                ELSE /\ phase[i] = "Free"
                     /\ submissions[i] = FreeSubmission)
    /\ [][(event'.op = "allocate" /\ event'.slot >= 0 /\ upload = NoUpload)
            => LET start == (submissions_start + Len(event'.retired))
                               % MAX_NUMBER_SUBMISSIONS
                   used == submissions_used - Len(event'.retired)
               IN /\ ~InWindow(event'.slot, start, used)
                  /\ event'.slot = (start + used) % MAX_NUMBER_SUBMISSIONS
                  /\ submissions_start' = start
                  /\ submissions_used' = used + 1]_vars

\* allocate claimed a slot at the front of the pool while the window runs
\* around its end
C38_Witness ==
    /\ event.op = "allocate"
    /\ event.slot >= 0
    /\ event.slot < submissions_start
    /\ submissions_start + submissions_used > MAX_NUMBER_SUBMISSIONS
    /\ submissions[event.slot] # FreeSubmission

(***************************************************************************)
(* allocate below the slot limit                                           *)
(***************************************************************************)
AllocateBelowLimit ==
    /\ allocs_left' # allocs_left
    /\ event'.op = "allocate"
    /\ submissions_used < MAX_NUMBER_SUBMISSIONS

\* the oldest unretired slot was submitted and its fence value is complete
OldestComplete ==
    /\ submissions_used > 0
    /\ phase[submissions_start] = "Submitted"
    /\ submissions[submissions_start].fence_value <= fence["upload"]

\* C39: with fewer than 16 slots outstanding, allocate, whether it succeeds
\* or fails for lack of space, changes neither buffer_tail nor
\* submissions_start nor any slot claimed before, even when outstanding
\* fence values are complete.
C39_NoCleanUpBelowLimit ==
    [][AllocateBelowLimit =>
        /\ buffer_tail' = buffer_tail
        /\ submissions_start' = submissions_start
        /\ event'.retired = << >>
        /\ ~event'.cleaned
        /\ \A i \in Slots :
              InWindow(i, submissions_start, submissions_used)
                => /\ submissions'[i] = submissions[i]
                   /\ phase'[i] = phase[i]]_vars

\* allocate failed for lack of space although the oldest slot's fence value
\* was complete, and left that slot in place
C39_Witness ==
    /\ event.op = "allocate"
    /\ ~event.ok
    /\ event.reason = "space"
    /\ submissions_used < MAX_NUMBER_SUBMISSIONS
    /\ OldestComplete

\* allocate claimed a slot while the oldest slot's fence value was complete
C39_WitnessClaimed ==
    /\ event.op = "allocate"
    /\ event.ok
    /\ submissions_used \in 2 .. (MAX_NUMBER_SUBMISSIONS - 1)
    /\ OldestComplete

(***************************************************************************)
(* The Renderer's frame loop                                               *)
(***************************************************************************)
RenderCalled == frames_left' # frames_left

\* a command list recorded with the allocator is still with the device
AllocatorInFlight(allocator) ==
    \E k \in 1 .. Len(command_queue) :
        command_queue[k] = ExecuteCmd(allocator)

\* C40: render resets the command allocator of frame_index only after the
\* device has completed the fence value kept in fence_values for the last
\* frame that used that allocator, and the values signaled on the queue
\* grow strictly from frame to frame.
C40_FrameLoop ==
    /\ [](/\ \A k \in 1 .. (Len(signaled) - 1) : signaled[k] < signaled[k + 1]
          /\ \A i \in FrameIndices :
                (i # frame_index /\ render_wait = NotWaiting)
                  => fence_values[i] = last_use[i])
    /\ [][RenderCalled =>
            /\ last_use[frame_index] <= frame_fence
            /\ ~AllocatorInFlight(frame_index)]_vars

\* render reset an allocator used before while the commands of the other
\* frame were still with the device
C40_Witness ==
    /\ r_event.op = "render"
    /\ r_event.reused
    /\ r_event.in_flight > 0
    /\ frame_index # r_event.allocator

\* a render call that had to wait for the next frame's fence value has
\* returned
C40_WitnessWaited ==
    /\ r_event.op = "wake"
    /\ last_use[frame_index] > 0
    /\ frames_left < MaxFrames - 1

=============================================================================
